---- MODULE Spec2Model ----
(***************************************************************************)
(* A model of the client side of katcp-python (src/katcp/client.py):       *)
(* DeviceClient (protocol handshake, request/send), CallbackClient (the    *)
(* asynchronous correlator: pending table, name stack, timers, stop) and   *)
(* BlockingClient (the one-request-at-a-time correlator).                  *)
(*                                                                         *)
(* Encoding.  Message identifiers are strings, as in the code (_next_id    *)
(* returns str(counter)); Python's None is the string "None".  A Message   *)
(* is a record [mtype, name, mid, arg]; mtype is the wire symbol.  A       *)
(* request object handed to CallbackClient.request is identified by its    *)
(* index in reqs; its reply_cb is a closure that appends what it is given  *)
(* to reqs[i].cbs.  Callers always pass a reply_cb.  reqs[i].pc is where   *)
(* the call is: "raised" (KatcpVersionError left request()), "push" (after *)
(* a successful send), "push_err", "deliver" and "deliver_pop" (after a    *)
(* client-side send error), "done".  timer.start() directly follows the    *)
(* push and is part of the same step: a timer cancelled before it was      *)
(* started never fires, like one cancelled while it waits.                 *)
(* The inform_cb of a request, which callers always pass too, appends     *)
(* what it is given to reqs[i].icbs.                                       *)
(***************************************************************************)
EXTENDS Integers, Sequences, FiniteSets, TLC

\* ---------------------------------------------------------------- bounds
\* Number of CallbackClient.request calls in one behaviour.
MaxRequests == 2
\* Number of BlockingClient.blocking_request calls in one behaviour.
MaxCalls == 2
\* Number of informs the server sends that match one blocking request.
MaxInforms == 2
\* Number of arguments of a Message given to the codec, and their length.
MaxArgs == 2
MaxArgLen == 2
\* Number of bytes of a line given to the parser that probes the type and
\* the name, and of the argument section of one that probes the arguments.
MaxLogged == 2
MaxSent == 2
MaxIds == 4
MaxHead == 4
MaxTail == 4
\* Number of bytes received on one connection, and in one chunk.
MaxStream == 5
MaxChunk == 2
\* Number of connections the I/O thread establishes in one behaviour.
MaxConnects == 2
\* Number of bytes of the data of a message given to send_message.
DataLen == 2

\* ------------------------------------------------------------- constants
None == "None"
Names == {"x", "y"}
\* MIDs a caller may put on a message itself (msg.mid set before request()).
ExplicitMids == {"7"}
\* str(n) for the message-id counter.
StrTable == <<"1", "2", "3", "4", "5", "6">>
AutoMids == {StrTable[n] : n \in 1..Len(StrTable)}
Mids == AutoMids \cup ExplicitMids
\* MIDs the server may put on a reply or inform.
ServerMids == {"1", "2", "7"}

REQUEST == "?"
REPLY == "!"
INFORM == "#"

\* The ProtocolFlags values a #version-connect inform may carry.
NoProtocolInfo == [major |-> 0, minor |-> 0, flags |-> {}]
Versions == {[major |-> 4, minor |-> 0, flags |-> {}],
             [major |-> 4, minor |-> 0, flags |-> {"M"}],
             [major |-> 5, minor |-> 0, flags |-> {}]}

VARIABLES
    \* DeviceClient
    sock,                   \* self._sock is not None
    running,                \* self._running
    io_alive,               \* the I/O thread is inside run()'s loop
    server_supports_ids,    \* self._server_supports_ids
    protocol_info,          \* self._protocol_info
    received_protocol_info, \* self._received_protocol_info
    last_msg_id,            \* self._last_msg_id
    wire,                   \* the requests (name and MID) and the replies
                            \* (Messages) written to the socket, in order
    \* CallbackClient
    async_queue,            \* self._async_queue: msg_id -> request index
    async_id_stack,         \* self._async_id_stack: name -> list of msg_ids
    reqs,                   \* the requests made, in call order
    timers,                 \* timers[i]: state of request i's threading.Timer
    io_reply,               \* the no-MID reply handle_reply is working on
    last,                   \* where the last dispatched reply or inform went
    \* BlockingClient
    request_end,            \* self._request_end
    current_name,           \* self._current_name
    current_msg_id,         \* self._current_msg_id
    current_informs,        \* self._current_informs
    current_reply,          \* self._current_reply
    current_inform_count,   \* self._current_inform_count
    bc,                     \* bc[t]: caller thread t in blocking_request
    bc_route,               \* where the last inbound message went
    bc_calls,               \* blocking_request calls made so far
    \* the codec (Message.__str__, MessageParser.parse)
    codec,                  \* a Message, its line, what the line parses to
    \* the framer (DeviceClient._handle_chunk)
    waiting_chunk,          \* self._waiting_chunk
    stream,                 \* the bytes received on this connection
    lines,                  \* the lines handed to the parser since connect
    handled,                \* the messages handed to handle_message
    \* the socket level (send_message, _connect, _disconnect, run, stop)
    connected,              \* self._connected
    socks,                  \* the sockets created, in order; the last one
                            \* is self._sock while sock holds
    upcalls,                \* the arguments of the notify_connected calls
    send_lock,              \* the thread holding self._send_lock, or NoThread
    th,                     \* th[t]: position and locals of thread t
    \* the life cycle (auto_reconnect, CallbackClient.join)
    auto_reconnect,         \* self._auto_reconnect
    async_lock,             \* the thread holding self._async_lock, or None
    jn,                     \* the caller thread in CallbackClient.join
    logged,                 \* the self._logger.error records of failed
                            \* callbacks and handlers
    msg_id_lock,            \* the thread holding self._msg_id_lock, or None
    nx                      \* nx[t]: caller thread t in DeviceClient.request

proto_vars == <<server_supports_ids, protocol_info, received_protocol_info>>
dc_vars == <<sock, running, io_alive, proto_vars, last_msg_id, wire>>
cb_vars == <<async_queue, async_id_stack, reqs, timers, io_reply, last>>
cur_vars == <<request_end, current_name, current_msg_id, current_informs,
              current_reply, current_inform_count>>
bc_vars == <<cur_vars, bc, bc_route, bc_calls>>
fr_vars == <<waiting_chunk, stream, lines, handled>>
io_vars == <<socks, upcalls, send_lock, th>>
id_vars == <<msg_id_lock, nx>>
life_vars == <<auto_reconnect, async_lock, jn, logged, id_vars>>
ext_vars == <<codec, fr_vars, connected, io_vars, life_vars>>
vars == <<dc_vars, cb_vars, bc_vars, ext_vars>>

\* ------------------------------------------------------------- messages
Message(mtype, name, mid, arg) ==
    [mtype |-> mtype, name |-> name, mid |-> mid, arg |-> arg]

NoMessage == Message(None, None, None, None)

\* ---------------------------------------------------------------- codec
\* A text (a Python str) is a sequence of bytes; a byte is written as a
\* string: itself when printable, a name otherwise.
BS == "\\"
SP == " "
NUL == "NUL"
LF == "LF"
CR == "CR"
ESC == "ESC"
TAB == "TAB"
DASH == "-"

\* str.isalpha and str.isalnum on the bytes the model uses ("." and "^"
\* are bytes that are neither).
Alpha == {"a", "b", "c", "d", "e", "f", "m", "n", "o", "r", "t", "z"}
Alnum == Alpha \cup {"0", "1", "2", "3"}

\* Message.TYPE_NAMES and Message.TYPE_SYMBOLS: the message types (the keys)
\* and the byte that stands for each on the wire.
MessageTypes == {"REQUEST", "REPLY", "INFORM"}
TypeSymbol(mtype) ==
    CASE mtype = "REQUEST" -> REQUEST
      [] mtype = "REPLY" -> REPLY
      [] mtype = "INFORM" -> INFORM

\* Message.TYPE_SYMBOL_LOOKUP: its keys, and the type for a key.
TypeSymbols == {TypeSymbol(mtype) : mtype \in MessageTypes}
TypeSymbolLookup(char) ==
    CHOOSE mtype \in MessageTypes : TypeSymbol(mtype) = char

\* Message.ESCAPE_LOOKUP: escape code -> byte.
EscapeCodes == {BS, SP, "0", "n", "r", "e", "t"}

\* Mutant of EscapeLookup: the codes n and r are exchanged.
EscapeLookupSwapped(code) ==
    CASE code = BS -> BS
      [] code = SP -> SP
      [] code = "0" -> NUL
      [] code = "n" -> CR
      [] code = "r" -> LF
      [] code = "e" -> ESC
      [] code = "t" -> TAB

EscapeLookup(code) ==
    CASE code = BS -> BS
      [] code = SP -> SP
      [] code = "0" -> NUL
      [] code = "n" -> LF
      [] code = "r" -> CR
      [] code = "e" -> ESC
      [] code = "t" -> TAB

\* Message.ESCAPE_RE, the bytes __str__ escapes.
Escaped == {BS, SP, NUL, LF, CR, ESC, TAB}

\* Mutant of SPECIAL: a tab is an ordinary byte.
SPECIALWithoutTab == {SP, ESC, LF, CR, BS, NUL}

\* MessageParser.SPECIAL.
SPECIAL == {SP, TAB, ESC, LF, CR, BS, NUL}

\* Message.REVERSE_ESCAPE_LOOKUP: byte -> escape code.
ReverseEscapeLookup(char) ==
    CHOOSE code \in EscapeCodes : EscapeLookup(code) = char

\* Mutant of EscapeMatch: a backslash in an argument is written as it is.
EscapeMatchPlainBackslash(char) ==
    IF char = BS THEN <<BS>> ELSE <<BS, ReverseEscapeLookup(char)>>

\* Message._escape_match: what an escaped byte is replaced with.
EscapeMatch(char) == <<BS, ReverseEscapeLookup(char)>>

\* ESCAPE_RE.sub(self._escape_match, x)
RECURSIVE EscapeArg(_)
EscapeArg(x) ==
    IF x = <<>> THEN <<>>
    ELSE (IF Head(x) \in Escaped THEN EscapeMatch(Head(x)) ELSE <<Head(x)>>)
             \o EscapeArg(Tail(x))

\* " ".join(texts)
RECURSIVE Join(_)
Join(texts) ==
    IF texts = <<>> THEN <<>>
    ELSE IF Len(texts) = 1 THEN texts[1]
    ELSE texts[1] \o <<SP>> \o Join(Tail(texts))

\* A Message of katcp.py.
Msg(mtype, name, arguments) ==
    [mtype |-> mtype, name |-> name, arguments |-> arguments]

\* Message.__str__
Serialize(msg) ==
    <<TypeSymbol(msg.mtype)>> \o msg.name \o
        (IF msg.arguments # <<>>
         THEN <<SP>> \o Join([k \in DOMAIN msg.arguments |->
                                  EscapeArg(msg.arguments[k])])
         ELSE <<>>)

\* What stands for an exception raised by MessageParser.parse.
ParseError == Msg("error", <<>>, <<>>)

\* line.partition(" "): the index of the first space, or Len(line) + 1.
FirstSpace(line) ==
    IF \E i \in DOMAIN line : line[i] = SP
    THEN CHOOSE i \in DOMAIN line :
             line[i] = SP /\ \A j \in 1..(i - 1) : line[j] # SP
    ELSE Len(line) + 1

\* MessageParser._parse_arguments from position i of tail on, with the
\* bytes of the argument in hand and the arguments completed so far:
\* <<TRUE, arguments>>, or <<FALSE, exception>> for the exception raised:
\* DclSyntaxError for an invalid escape or an unescaped special,
\* StopIteration when tail_iter.next() finds nothing after a final backslash.
RECURSIVE ParseArgumentsFrom(_, _, _, _)
ParseArgumentsFrom(tail, i, arg, arguments) ==
    IF i > Len(tail) THEN <<TRUE, Append(arguments, arg)>>
    ELSE IF tail[i] = BS
         THEN IF i + 1 > Len(tail) THEN <<FALSE, "StopIteration">>
              ELSE IF tail[i + 1] \in EscapeCodes
                   THEN ParseArgumentsFrom(tail, i + 2,
                            Append(arg, EscapeLookup(tail[i + 1])), arguments)
                   ELSE <<FALSE, "DclSyntaxError">>
         ELSE IF tail[i] = SP
              THEN ParseArgumentsFrom(tail, i + 1, <<>>, Append(arguments, arg))
              ELSE IF tail[i] \notin SPECIAL
                   THEN ParseArgumentsFrom(tail, i + 1, Append(arg, tail[i]),
                                           arguments)
                   ELSE <<FALSE, "DclSyntaxError">>

\* Mutant of ParseArguments: an empty tail gives no arguments.
ParseArgumentsEmptyTail(sep, tail) ==
    IF ~sep \/ tail = <<>> THEN <<TRUE, <<>>>>
    ELSE ParseArgumentsFrom(tail, 1, <<>>, <<>>)

\* MessageParser._parse_arguments(sep, tail); sep is whether there was one.
ParseArguments(sep, tail) ==
    IF ~sep THEN <<TRUE, <<>>>>
    ELSE ParseArgumentsFrom(tail, 1, <<>>, <<>>)

\* name.replace("-", "")
WithoutDashes(name) == SelectSeq(name, LAMBDA c : c # DASH)

\* Mutant of NameValid: the first byte is not tested for a letter.
NameValidAnyFirst(name) ==
    /\ name # <<>>
    /\ WithoutDashes(name) # <<>>
    /\ \A k \in DOMAIN name : name[k] \in Alnum \cup {DASH}

\* The checks parse makes on the command name.
NameValid(name) ==
    /\ name # <<>>
    /\ WithoutDashes(name) # <<>>
    /\ \A k \in DOMAIN name : name[k] \in Alnum \cup {DASH}
    /\ name[1] \in Alpha

\* MessageParser.parse(line): the Message, or ParseError.
Parse(line) ==
    LET p == FirstSpace(line)
        type_name == SubSeq(line, 1, p - 1)
        sep == p <= Len(line)
        tail == SubSeq(line, p + 1, Len(line))
        name == SubSeq(type_name, 2, Len(type_name))
        arguments == ParseArguments(sep, tail)
    IN  IF type_name = <<>> THEN ParseError
        ELSE IF type_name[1] \notin TypeSymbols THEN ParseError
        ELSE IF ~NameValid(name) THEN ParseError
        ELSE IF ~arguments[1] THEN ParseError
        ELSE Msg(TypeSymbolLookup(type_name[1]), name, arguments[2])

\* MessageParser.parse(line): the exception it raises, or None.
ParseException(line) ==
    LET p == FirstSpace(line)
        type_name == SubSeq(line, 1, p - 1)
        sep == p <= Len(line)
        tail == SubSeq(line, p + 1, Len(line))
        name == SubSeq(type_name, 2, Len(type_name))
        arguments == ParseArguments(sep, tail)
    IN  IF type_name = <<>> THEN "DclSyntaxError"
        ELSE IF type_name[1] \notin TypeSymbols THEN "DclSyntaxError"
        ELSE IF ~NameValid(name) THEN "DclSyntaxError"
        ELSE IF ~arguments[1] THEN arguments[2]
        ELSE None

\* The codec at rest.
NoCodec ==
    [pc |-> "idle", msg |-> ParseError, line |-> <<>>, out |-> ParseError,
     exc |-> None]

\* str(msg) for the Message in hand.
CodecSerialize ==
    /\ codec.pc = "made"
    /\ codec' = [codec EXCEPT !.pc = "line", !.line = Serialize(codec.msg)]
    /\ UNCHANGED <<dc_vars, cb_vars, bc_vars, fr_vars, connected, io_vars,
                   life_vars>>

\* MessageParser().parse(line) for the line in hand.
CodecParse ==
    /\ codec.pc = "line"
    /\ codec' = [codec EXCEPT !.pc = "parsed", !.out = Parse(codec.line),
                              !.exc = ParseException(codec.line)]
    /\ UNCHANGED <<dc_vars, cb_vars, bc_vars, fr_vars, connected, io_vars,
                   life_vars>>

\* --------------------------------------------------------------- framer
\* Mutant of ReplaceCR: a carriage return is left in the chunk.
ReplaceCRNot(chunk) == chunk

\* chunk.replace("\r", "\n")
ReplaceCR(chunk) == [k \in DOMAIN chunk |-> IF chunk[k] = CR THEN LF ELSE chunk[k]]

\* text.split("\n"): the pieces between the line feeds, one more than
\* there are line feeds.
RECURSIVE Split(_)
Split(text) ==
    IF \A k \in DOMAIN text : text[k] # LF THEN <<text>>
    ELSE LET p == CHOOSE k \in DOMAIN text :
                      text[k] = LF /\ \A j \in 1..(k - 1) : text[j] # LF
         IN  <<SubSeq(text, 1, p - 1)>> \o Split(SubSeq(text, p + 1, Len(text)))

\* Mutant of Dispatch: a line that failed to parse is dispatched too.
DispatchAnything(msgs, msg) == Append(msgs, msg)

\* _handle_chunk, the try statement: a line that parsed goes to
\* handle_message, the exception of one that did not is logged.
Dispatch(msgs, msg) ==
    IF msg = ParseError THEN msgs ELSE Append(msgs, msg)

\* _handle_chunk, the loop over lines[:-1] from piece i on: what becomes of
\* self._waiting_chunk, of the lines parsed and of the messages handled.
RECURSIVE HandleLines(_, _, _, _, _)
HandleLines(pieces, i, waiting, parsed, msgs) ==
    IF i >= Len(pieces)
    THEN [waiting |-> waiting \o pieces[Len(pieces)],
          lines |-> parsed, handled |-> msgs]
    ELSE LET full_line == waiting \o pieces[i]
         IN  IF full_line # <<>>
             THEN HandleLines(pieces, i + 1, <<>>, Append(parsed, full_line),
                              Dispatch(msgs, Parse(full_line)))
             ELSE HandleLines(pieces, i + 1, <<>>, parsed, msgs)

\* run: chunk = sock.recv(4096) gave a non-empty chunk, and
\* self._handle_chunk(chunk).
HandleChunk(chunk) ==
    /\ io_alive /\ sock /\ io_reply = NoMessage
    /\ Len(stream) + Len(chunk) <= MaxStream
    /\ stream' = stream \o chunk
    /\ LET after == HandleLines(Split(ReplaceCR(chunk)), 1, waiting_chunk,
                                lines, handled)
       IN  /\ waiting_chunk' = after.waiting
           /\ lines' = after.lines
           /\ handled' = after.handled
    /\ UNCHANGED <<dc_vars, cb_vars, bc_vars, codec, connected, io_vars,
                   life_vars>>

\* --------------------------------------------------------- DeviceClient
\* str(self._last_msg_id)
Str(n) == StrTable[n]

\* ProtocolFlags.supports(MESSAGE_IDS): major >= 5, or the flag M.
Supports(info) == info.major >= 5 \/ "M" \in info.flags

\* DeviceClient.inform_version_connect(msg), msg.arguments = args.
InformVersionConnect(args) ==
    /\ io_alive /\ sock
    /\ IF Len(args) < 2
       THEN UNCHANGED <<protocol_info, server_supports_ids,
                        received_protocol_info>>
       ELSE IF args[1] = "katcp-protocol"
            THEN /\ protocol_info' = args[2]
                 /\ server_supports_ids' = Supports(args[2])
                 /\ received_protocol_info' = TRUE
            ELSE UNCHANGED <<protocol_info, server_supports_ids,
                             received_protocol_info>>
    /\ UNCHANGED <<sock, running, io_alive, last_msg_id, wire, cb_vars, bc_vars, ext_vars>>

\* Mutant of ResolveUseMid: the default follows the handshake latch, not
\* the MID support the server advertised.
ResolveUseMidByLatch(use_mid) ==
    IF use_mid = None THEN received_protocol_info ELSE use_mid = "True"

\* use_mid as resolved by DeviceClient.request: None means "server default".
ResolveUseMid(use_mid) ==
    IF use_mid = None THEN server_supports_ids ELSE use_mid = "True"

\* msg.mid after DeviceClient.request has assigned it.
AssignMid(msg_mid, use_mid) ==
    IF ResolveUseMid(use_mid) /\ msg_mid = None
    THEN Str(last_msg_id + 1)
    ELSE msg_mid

\* self._last_msg_id after DeviceClient.request.
NextId(msg_mid, use_mid) ==
    IF ResolveUseMid(use_mid) /\ msg_mid = None
    THEN last_msg_id + 1
    ELSE last_msg_id

\* The KatcpVersionError test of DeviceClient.request.
VersionError(mid) == ~server_supports_ids /\ mid # None

\* Mutant of RequestOutcome: the version test is made on msg.mid as the
\* caller passed it, before a MID is assigned.
RequestOutcomeEarlyTest(msg_mid, use_mid) ==
    IF VersionError(msg_mid) THEN "VersionError"
    ELSE IF ~sock THEN "ClientError"
    ELSE "sent"

\* What DeviceClient.request(msg, use_mid) raises or does: "VersionError",
\* "ClientError" (send_message with no socket) or "sent".
RequestOutcome(msg_mid, use_mid) ==
    IF VersionError(AssignMid(msg_mid, use_mid)) THEN "VersionError"
    ELSE IF ~sock THEN "ClientError"
    ELSE "sent"

\* DeviceClient.request on a caller thread, outside the call: the MIDs
\* the thread's requests were given, in call order, and the value of
\* self._last_msg_id it last loaded.
IdleRequest == [pc |-> "idle", mids |-> <<>>, loaded |-> 0]

\* The MIDs assigned so far, and the calls of _next_id in progress.
Assigned == UNION {{<<t, k>> : k \in DOMAIN nx[t].mids} : t \in DOMAIN nx}
InNextId == {t \in DOMAIN nx : nx[t].pc # "idle"}

\* Mutant of MsgIdLockFree: _next_id takes no lock.
MsgIdLockFreeAlways == TRUE

\* self._msg_id_lock.acquire() does not block.
MsgIdLockFree == msg_id_lock = None

\* What the steps of _next_id leave alone.
id_frame == <<sock, running, io_alive, proto_vars, wire, cb_vars, bc_vars,
              codec, fr_vars, connected, io_vars, auto_reconnect, async_lock,
              jn, logged>>

\* DeviceClient.request(msg, use_mid=True) with msg.mid None on caller
\* thread t: _next_id is called.
NextIdCall(t) ==
    /\ nx[t].pc = "idle"
    /\ Cardinality(Assigned) + Cardinality(InNextId) < MaxIds
    /\ nx' = [nx EXCEPT ![t].pc = "acquire"]
    /\ UNCHANGED <<last_msg_id, msg_id_lock, id_frame>>

\* _next_id: self._msg_id_lock.acquire().
NextIdAcquire(t) ==
    /\ nx[t].pc = "acquire"
    /\ MsgIdLockFree
    /\ msg_id_lock' = t
    /\ nx' = [nx EXCEPT ![t].pc = "load"]
    /\ UNCHANGED <<last_msg_id, id_frame>>

\* _next_id: self._last_msg_id += 1, the load ...
NextIdLoad(t) ==
    /\ nx[t].pc = "load"
    /\ nx' = [nx EXCEPT ![t].pc = "store", ![t].loaded = last_msg_id]
    /\ UNCHANGED <<last_msg_id, msg_id_lock, id_frame>>

\* ... and the store.
NextIdStore(t) ==
    /\ nx[t].pc = "store"
    /\ last_msg_id' = nx[t].loaded + 1
    /\ nx' = [nx EXCEPT ![t].pc = "return"]
    /\ UNCHANGED <<msg_id_lock, id_frame>>

\* _next_id: return str(self._last_msg_id), and the lock is released;
\* request stores the result in msg.mid.
NextIdReturn(t) ==
    /\ nx[t].pc = "return"
    /\ nx' = [nx EXCEPT ![t].pc = "idle",
                        ![t].mids = Append(@, Str(last_msg_id))]
    /\ msg_id_lock' = None
    /\ UNCHANGED <<last_msg_id, id_frame>>

\* ------------------------------------------------------- CallbackClient
\* The "tuple of Nones" _pop_async_request and _peek_async_request return.
NoRequest == 0

\* self._async_lock.acquire() does not block (in _push_async_request,
\* _pop_async_request, _peek_async_request, stop and join).
AsyncLockFree == async_lock = None

\* list.remove(e): the list without the first occurrence of e.
ListRemove(s, e) ==
    IF \E i \in 1..Len(s) : s[i] = e
    THEN LET idx == CHOOSE i \in 1..Len(s) :
                        s[i] = e /\ \A j \in 1..(i - 1) : s[j] # e
         IN  SubSeq(s, 1, idx - 1) \o SubSeq(s, idx + 1, Len(s))
    ELSE s

\* dict assignment d[k] = v and del d[k].
DictSet(d, k, v) == [x \in DOMAIN d \cup {k} |-> IF x = k THEN v ELSE d[x]]
DictDel(d, k) == [x \in DOMAIN d \ {k} |-> d[x]]

\* CallbackClient._msg_id_for_name over a given name stack.
MsgIdForName(stack, msg_name) ==
    IF msg_name \in DOMAIN stack /\ stack[msg_name] # <<>>
    THEN Head(stack[msg_name])
    ELSE None

\* The key _pop_async_request and _peek_async_request look up.
LookupId(msg_id, msg_name) ==
    IF msg_id = None THEN MsgIdForName(async_id_stack, msg_name) ELSE msg_id

\* CallbackClient._peek_async_request: the request found, or NoRequest.
PeekAsyncRequest(msg_id, msg_name) ==
    IF LookupId(msg_id, msg_name) \in DOMAIN async_queue
    THEN async_queue[LookupId(msg_id, msg_name)]
    ELSE NoRequest

\* Mutant of PopQueue: the entry is returned but not deleted.
PopQueueKeepsEntry(msg_id, msg_name) == async_queue

\* CallbackClient._pop_async_request: the pending table after the pop.
PopQueue(msg_id, msg_name) ==
    IF LookupId(msg_id, msg_name) \in DOMAIN async_queue
    THEN DictDel(async_queue, LookupId(msg_id, msg_name))
    ELSE async_queue

\* CallbackClient._pop_async_request: the name stack after the pop.
PopStack(msg_id, msg_name) ==
    IF LookupId(msg_id, msg_name) \in DOMAIN async_queue
    THEN LET r == async_queue[LookupId(msg_id, msg_name)]
         IN  [async_id_stack EXCEPT ![reqs[r].name] =
                  ListRemove(@, LookupId(msg_id, msg_name))]
    ELSE async_id_stack

\* CallbackClient._push_async_request: the pending table after the push.
PushQueue(msg_id, r) == DictSet(async_queue, msg_id, r)

\* CallbackClient._push_async_request: the name stack after the push.
PushStack(msg_id, r) ==
    [async_id_stack EXCEPT ![reqs[r].name] = Append(@, msg_id)]

\* threading.Timer.cancel(): only a timer that has not fired is stopped.
TimerCancel(state) ==
    IF state \in {"new", "waiting"} THEN "cancelled" ELSE state

\* timers after cancelling the timers of the requests in rs.
CancelAll(rs) ==
    [i \in DOMAIN timers |->
        IF i \in rs THEN TimerCancel(timers[i]) ELSE timers[i]]

\* reqs after the reply_cb of each request r in rs was called with msgs[r].
CallReplyCb(rs, msgs) ==
    [i \in DOMAIN reqs |->
        IF i \in rs
        THEN [reqs[i] EXCEPT !.cbs = Append(@, msgs[i])]
        ELSE reqs[i]]

\* CallbackClient.request, up to the creation of the timer: the call to
\* DeviceClient.request (which assigns the MID, may raise KatcpVersionError,
\* and sends) and the except clauses around it.
RequestCall(name, msg_mid, use_mid, timeout) ==
    /\ Len(reqs) < MaxRequests
    \* callers do not reuse a MID
    /\ \A j \in DOMAIN reqs : msg_mid = None \/ reqs[j].mid # msg_mid
    /\ last_msg_id' = NextId(msg_mid, use_mid)
    /\ reqs' = Append(reqs,
           [name |-> name, mid |-> AssignMid(msg_mid, use_mid),
            pc |-> CASE RequestOutcome(msg_mid, use_mid) = "VersionError"
                          -> "raised"
                     [] RequestOutcome(msg_mid, use_mid) = "ClientError"
                          -> "push_err"
                     [] OTHER -> "push",
            cbs |-> <<>>, icbs |-> <<>>])
    /\ timers' = Append(timers,
           IF timeout /\ RequestOutcome(msg_mid, use_mid) # "VersionError"
           THEN "new" ELSE "none")
    /\ wire' = IF RequestOutcome(msg_mid, use_mid) = "sent"
               THEN Append(wire, [name |-> name,
                                  mid |-> AssignMid(msg_mid, use_mid)])
               ELSE wire
    /\ UNCHANGED <<sock, running, io_alive, proto_vars>>
    /\ UNCHANGED <<async_queue, async_id_stack, io_reply, last, bc_vars, ext_vars>>

\* CallbackClient.request: self._push_async_request(msg.mid, msg, ...)
\* and timer.start().
RequestPush(i) ==
    /\ AsyncLockFree
    /\ i \in DOMAIN reqs /\ reqs[i].pc \in {"push", "push_err"}
    /\ async_queue' = PushQueue(reqs[i].mid, i)
    /\ async_id_stack' = PushStack(reqs[i].mid, i)
    /\ timers' = [timers EXCEPT ![i] = IF @ = "new" THEN "waiting" ELSE @]
    /\ reqs' = [reqs EXCEPT ![i].pc = IF @ = "push" THEN "done" ELSE "deliver"]
    /\ UNCHANGED <<dc_vars, io_reply, last, bc_vars, ext_vars>>

\* The messages the client synthesizes.
\* _handle_timeout: Message.reply(msg.name, "fail", "Timed out ...").
TimeoutReply(name) == Message(REPLY, name, None, "fail-timeout")
\* stop: Message.reply(msg.name, "fail", "Client stopped before ...").
StoppedReply(name) == Message(REPLY, name, None, "fail-stopped")
\* request: error_reply = Message.request(msg.name, "fail", str(e)).
ErrorReply(name, mid) == Message(REQUEST, name, mid, "fail-senderr")
\* A reply from the server.
ServerReply(name, mid) == Message(REPLY, name, mid, "ok")
\* An inform from the server.
ServerInform(name, mid) == Message(INFORM, name, mid, "inform")

\* How a callback or a handler ends: it returns (None) or raises an
\* exception derived from Exception.
CallbackOutcomes == {None, "Exception"}

\* The exceptions derived from Exception that the handlers meet.
Exceptions == {"Exception", "AttributeError", "AssertionError", "ClientError"}

\* Mutant of Caught: the handler has no except clause.
CaughtNothing(exc) == FALSE

\* try: cb(msg) ... except Exception: whether exc is caught.
Caught(exc) == exc \in Exceptions

\* An exception that is not caught leaves the handler, handle_message,
\* _handle_chunk and run().
Escapes(exc) == exc # None /\ ~Caught(exc)

\* A handler on the I/O thread after its callback ended with exc: the
\* except clause logs what it caught; what escapes ends the I/O thread.
AfterCallback(exc, handler, name) ==
    /\ logged' = IF exc # None /\ Caught(exc)
                 THEN Append(logged, [handler |-> handler, name |-> name,
                                      exc |-> exc])
                 ELSE logged
    /\ io_alive' = (io_alive /\ ~Escapes(exc))

\* handle_reply after _pop_async_request(msg_id, msg_name) returned: the
\* timer of the popped request is cancelled ...
PoppedTimers(msg_id, msg_name) ==
    CancelAll({PeekAsyncRequest(msg_id, msg_name)} \ {NoRequest})

\* ... and its reply_cb is called with msg ...
PoppedReqs(msg, msg_id, msg_name) ==
    CallReplyCb({PeekAsyncRequest(msg_id, msg_name)} \ {NoRequest},
                [i \in DOMAIN reqs |-> msg])

\* ... otherwise msg goes to DeviceClient.handle_reply (NoRequest).
PoppedRoute(msg_id, msg_name) ==
    PeekAsyncRequest(msg_id, msg_name)

\* handle_reply for a reply without MID: whether the request peeked at
\* for msg.name is one sent without a MID, so that it is then popped.
PeekedWithoutMid(msg) ==
    /\ PeekAsyncRequest(None, msg.name) # NoRequest
    /\ reqs[PeekAsyncRequest(None, msg.name)].mid = None

\* handle_reply for a reply without MID that pops nothing: the timer of the
\* request peeked at is cancelled all the same.
PeekedTimers(msg) ==
    CancelAll({PeekAsyncRequest(None, msg.name)} \ {NoRequest})

\* What the handlers on the I/O thread leave alone.
io_frame == <<sock, running, proto_vars, last_msg_id, bc_vars, codec, fr_vars,
              connected, io_vars, auto_reconnect, async_lock, jn, id_vars>>

\* CallbackClient.handle_reply on the I/O thread, for a reply the server
\* sent: with a MID the whole handler; without one, up to the peek, and
\* the whole handler when nothing is to be popped.  exc is how the
\* callback (the reply_cb, or the reply handler of DeviceClient) ends.
HandleReplyCb(name, mid, exc) ==
    /\ AsyncLockFree
    /\ io_alive /\ sock /\ io_reply = NoMessage
    /\ exc # None => Len(logged) < MaxLogged
    /\ LET msg == ServerReply(name, mid)
       IN  IF mid # None
           THEN /\ async_queue' = PopQueue(mid, None)
                /\ async_id_stack' = PopStack(mid, None)
                /\ timers' = PoppedTimers(mid, None)
                /\ reqs' = PoppedReqs(msg, mid, None)
                /\ last' = PoppedRoute(mid, None)
                /\ AfterCallback(exc, "reply", name)
                /\ UNCHANGED io_reply
           ELSE IF PeekedWithoutMid(msg)
                THEN /\ exc = None
                     /\ io_reply' = msg
                     /\ UNCHANGED <<async_queue, async_id_stack, timers,
                                    reqs, last, logged, io_alive>>
                ELSE /\ timers' = PeekedTimers(msg)
                     /\ last' = NoRequest
                     /\ AfterCallback(exc, "reply", name)
                     /\ UNCHANGED <<async_queue, async_id_stack, reqs,
                                    io_reply>>
    /\ UNCHANGED <<io_frame, wire>>

\* handle_reply with a callback that returns.
HandleReply(name, mid) == HandleReplyCb(name, mid, None)

\* CallbackClient.handle_reply on the I/O thread, for a reply without MID,
\* from _pop_async_request(None, msg.name) on.
HandleReplyPopCb(exc) ==
    /\ AsyncLockFree
    /\ io_reply # NoMessage
    /\ exc # None => Len(logged) < MaxLogged
    /\ async_queue' = PopQueue(None, io_reply.name)
    /\ async_id_stack' = PopStack(None, io_reply.name)
    /\ timers' = PoppedTimers(None, io_reply.name)
    /\ reqs' = PoppedReqs(io_reply, None, io_reply.name)
    /\ last' = PoppedRoute(None, io_reply.name)
    /\ io_reply' = NoMessage
    /\ AfterCallback(exc, "reply", io_reply.name)
    /\ UNCHANGED <<io_frame, wire>>

\* The same with a callback that returns.
HandleReplyPop == HandleReplyPopCb(None)

\* CallbackClient.handle_inform: the request whose inform_cb gets msg, or
\* NoRequest when it goes to DeviceClient.handle_inform.
InformRoute(msg) ==
    IF msg.mid # None
    THEN PeekAsyncRequest(msg.mid, None)
    ELSE IF /\ PeekAsyncRequest(None, msg.name) # NoRequest
            /\ reqs[PeekAsyncRequest(None, msg.name)].mid # None
         THEN NoRequest
         ELSE PeekAsyncRequest(None, msg.name)

\* reqs after the inform_cb of request r (if any) was called with msg.
CallInformCb(r, msg) ==
    [i \in DOMAIN reqs |->
        IF i = r THEN [reqs[i] EXCEPT !.icbs = Append(@, msg)] ELSE reqs[i]]

\* CallbackClient.handle_inform on the I/O thread, for an inform the
\* server sent; exc is how the callback (the inform_cb, or the inform
\* handler of DeviceClient) ends.
HandleInform(name, mid, exc) ==
    /\ AsyncLockFree
    /\ io_alive /\ sock /\ io_reply = NoMessage
    /\ exc # None => Len(logged) < MaxLogged
    /\ LET msg == ServerInform(name, mid)
       IN  /\ InformRoute(msg) # NoRequest =>
                  Len(reqs[InformRoute(msg)].icbs) < MaxInforms
           /\ reqs' = CallInformCb(InformRoute(msg), msg)
           /\ last' = InformRoute(msg)
    /\ AfterCallback(exc, "inform", name)
    /\ UNCHANGED <<async_queue, async_id_stack, timers, io_reply>>
    /\ UNCHANGED <<io_frame, wire>>

\* A request from the server.
ServerRequest(name, mid) == Message(REQUEST, name, mid, "do")

\* What a request handler may return: nothing (unhandled_request does),
\* or a message of any type, name and MID.
HandlerReturns ==
    {NoMessage} \cup {Message(mtype, name, mid, "ok") :
                         mtype \in {REQUEST, REPLY, INFORM}, name \in Names,
                         mid \in {None, "7"}}

\* Mutant of RequestError: the name of the reply is not asserted.
RequestErrorAnyName(msg, exc, reply) ==
    IF exc # None THEN exc
    ELSE IF reply = NoMessage THEN "AttributeError"
    ELSE IF reply.mtype # REPLY THEN "AssertionError"
    ELSE IF ~sock THEN "ClientError"
    ELSE None

\* DeviceClient.handle_request: the exception raised inside its try block,
\* if any, when the handler ends with exc or returns reply: the handler's
\* own, reply.mid = msg.mid on None, one of the two asserts, or
\* KatcpClientError from send_message without a socket.
RequestError(msg, exc, reply) ==
    IF exc # None THEN exc
    ELSE IF reply = NoMessage THEN "AttributeError"
    ELSE IF reply.mtype # REPLY THEN "AssertionError"
    ELSE IF reply.name # msg.name THEN "AssertionError"
    ELSE IF ~sock THEN "ClientError"
    ELSE None

\* DeviceClient.handle_request on the I/O thread, for a request received
\* from the server (a caller thread may have disconnected the client
\* since): the handler ends with exc or returns reply.
HandleRequest(name, mid, exc, reply) ==
    /\ io_alive /\ io_reply = NoMessage
    /\ exc # None => reply = NoMessage
    /\ LET msg == ServerRequest(name, mid)
           err == RequestError(msg, exc, reply)
       IN  /\ IF err = None THEN Len(wire) < MaxSent
                            ELSE Len(logged) < MaxLogged
           /\ wire' = IF err = None
                      THEN Append(wire, [reply EXCEPT !.mid = msg.mid])
                      ELSE wire
           /\ AfterCallback(err, "request", name)
    /\ UNCHANGED <<cb_vars, io_frame>>

\* CallbackClient.request: self.handle_reply(error_reply) on the caller's
\* thread after a client-side send error; with a MID the whole handler,
\* without one, up to the peek.
RequestDeliver(i) ==
    /\ AsyncLockFree
    /\ i \in DOMAIN reqs /\ reqs[i].pc = "deliver"
    /\ LET msg == ErrorReply(reqs[i].name, reqs[i].mid)
       IN  IF msg.mid # None
           THEN /\ async_queue' = PopQueue(msg.mid, None)
                /\ async_id_stack' = PopStack(msg.mid, None)
                /\ timers' = PoppedTimers(msg.mid, None)
                /\ reqs' = [PoppedReqs(msg, msg.mid, None)
                                EXCEPT ![i].pc = "done"]
                /\ last' = PoppedRoute(msg.mid, None)
           ELSE IF PeekedWithoutMid(msg)
                THEN /\ reqs' = [reqs EXCEPT ![i].pc = "deliver_pop"]
                     /\ UNCHANGED <<async_queue, async_id_stack, timers, last>>
                ELSE /\ timers' = PeekedTimers(msg)
                     /\ last' = NoRequest
                     /\ reqs' = [reqs EXCEPT ![i].pc = "done"]
                     /\ UNCHANGED <<async_queue, async_id_stack>>
    /\ UNCHANGED <<dc_vars, io_reply, bc_vars, ext_vars>>

\* The same, from _pop_async_request(None, msg.name) on.
RequestDeliverPop(i) ==
    /\ AsyncLockFree
    /\ i \in DOMAIN reqs /\ reqs[i].pc = "deliver_pop"
    /\ LET msg == ErrorReply(reqs[i].name, reqs[i].mid)
       IN  /\ async_queue' = PopQueue(None, msg.name)
           /\ async_id_stack' = PopStack(None, msg.name)
           /\ timers' = PoppedTimers(None, msg.name)
           /\ reqs' = [PoppedReqs(msg, None, msg.name) EXCEPT ![i].pc = "done"]
           /\ last' = PoppedRoute(None, msg.name)
    /\ UNCHANGED <<dc_vars, io_reply, bc_vars, ext_vars>>

\* threading.Timer.run: the interval has passed and the timer was not
\* cancelled; the thread goes on to call _handle_timeout.
TimerExpire(i) ==
    /\ i \in DOMAIN timers /\ timers[i] = "waiting"
    /\ timers' = [timers EXCEPT ![i] = "running"]
    /\ UNCHANGED <<dc_vars, async_queue, async_id_stack, reqs, io_reply, last,
                   bc_vars, ext_vars>>

\* _handle_timeout: the requests whose reply_cb gets the synthetic reply
\* (none when nothing was popped, or what was popped has no timer).
TimedOut(msg_id) ==
    LET r == PeekAsyncRequest(msg_id, None)
    IN  IF r # NoRequest /\ timers[r] # "none" THEN {r} ELSE {}

\* CallbackClient._handle_timeout(msg_id) on the timer thread of request i.
HandleTimeout(i) ==
    /\ AsyncLockFree
    /\ i \in DOMAIN timers /\ timers[i] = "running"
    /\ async_queue' = PopQueue(reqs[i].mid, None)
    /\ async_id_stack' = PopStack(reqs[i].mid, None)
    /\ reqs' = CallReplyCb(TimedOut(reqs[i].mid),
                           [r \in DOMAIN reqs |-> TimeoutReply(reqs[r].name)])
    /\ timers' = [timers EXCEPT ![i] = "done"]
    /\ UNCHANGED <<dc_vars, io_reply, last, bc_vars, ext_vars>>

\* self._async_queue.values(): the requests that have an entry.
InQueueNow == {async_queue[k] : k \in DOMAIN async_queue}

\* CallbackClient.stop: the requests whose timer is cancelled and whose
\* reply_cb gets the synthetic reply.
StopDrained == {async_queue[k] : k \in DOMAIN async_queue}

\* CallbackClient.stop (DeviceClient.stop raises when not running).
Stop ==
    /\ AsyncLockFree
    /\ running
    /\ running' = FALSE
    /\ timers' = CancelAll(StopDrained)
    /\ reqs' = CallReplyCb(StopDrained,
                           [r \in DOMAIN reqs |-> StoppedReply(reqs[r].name)])
    /\ UNCHANGED <<sock, io_alive, proto_vars, last_msg_id, wire>>
    /\ UNCHANGED <<async_queue, async_id_stack, io_reply, last, bc_vars, ext_vars>>

\* DeviceClient._disconnect from run(): select error or EOF from the server.
Disconnect ==
    /\ io_alive /\ sock /\ io_reply = NoMessage
    /\ sock' = FALSE
    /\ connected' = FALSE
    /\ UNCHANGED <<running, io_alive, proto_vars, last_msg_id, wire, cb_vars,
                   bc_vars, codec, fr_vars, io_vars,
                   life_vars>>

\* DeviceClient._connect from run() (auto_reconnect), when it succeeds; the
\* record of what the connection received starts afresh.
Connect ==
    /\ io_alive /\ running /\ ~sock /\ io_reply = NoMessage
    /\ sock' = TRUE
    /\ waiting_chunk' = <<>>
    /\ connected' = TRUE
    /\ stream' = <<>> /\ lines' = <<>> /\ handled' = <<>>
    /\ UNCHANGED <<running, io_alive, proto_vars, last_msg_id, wire, cb_vars,
                   bc_vars, codec, io_vars,
                   life_vars>>

\* DeviceClient.run: the loop finds _running cleared, leaves and disconnects.
LoopExit ==
    /\ io_alive /\ ~running /\ io_reply = NoMessage
    /\ io_alive' = FALSE
    /\ sock' = FALSE
    /\ connected' = FALSE
    /\ UNCHANGED <<running, proto_vars, last_msg_id, wire, cb_vars, bc_vars,
                   codec, fr_vars, io_vars,
                   life_vars>>

\* -------------------------------------------------------- BlockingClient
\* self._current_informs = None (a list otherwise).
NoInforms == <<NoMessage>>
\* self._current_inform_count = None (a number otherwise).
NoCount == -1
\* MIDs the server may put on what it sends to a BlockingClient.
BlockingMids == {"1", "2"}

\* A caller thread outside blocking_request.  name, mid, use_mid and
\* keepalive are the arguments of the call in progress (mid is msg.mid),
\* exc the exception on its way out of the try block, result how the call
\* ends ("returned", "timeout" or the exception raised), reply and informs
\* what it returns, seen the number of informs recorded for the call when
\* its current wait began.
IdleCaller ==
    [pc |-> "idle", name |-> None, mid |-> None, use_mid |-> None,
     keepalive |-> FALSE, exc |-> None, result |-> None,
     reply |-> NoMessage, informs |-> NoInforms, seen |-> 0]

\* Mutant of MessageMatches: the name decides even when a MID is current.
MessageMatchesByName(msg) ==
    msg.name = current_name

\* BlockingClient._message_matches(msg).
MessageMatches(msg) ==
    \/ current_msg_id # None /\ msg.mid = current_msg_id
    \/ current_msg_id = None /\ msg.name = current_name

\* blocking_request, the first locked section: the current request is set up.
BlockingBegin(t, name, msg_mid, use_mid, keepalive) ==
    /\ bc[t].pc = "idle"
    /\ bc_calls < MaxCalls
    /\ bc_calls' = bc_calls + 1
    /\ request_end' = FALSE
    /\ current_name' = name
    /\ current_informs' = <<>>
    /\ current_reply' = NoMessage
    /\ current_inform_count' = 0
    /\ bc' = [bc EXCEPT ![t] =
                 [IdleCaller EXCEPT !.pc = "request", !.name = name,
                                    !.mid = msg_mid, !.use_mid = use_mid,
                                    !.keepalive = keepalive]]
    /\ UNCHANGED <<current_msg_id, bc_route, dc_vars, ext_vars, cb_vars>>

\* blocking_request: self.request(msg, use_mid=use_mid), which is
\* DeviceClient.request; what it raises is on its way to the caller.
BlockingSend(t) ==
    /\ bc[t].pc = "request"
    /\ LET out == RequestOutcome(bc[t].mid, bc[t].use_mid)
           mid == AssignMid(bc[t].mid, bc[t].use_mid)
       IN  /\ last_msg_id' = NextId(bc[t].mid, bc[t].use_mid)
           /\ wire' = IF out = "sent"
                      THEN Append(wire, [name |-> bc[t].name, mid |-> mid])
                      ELSE wire
           /\ bc' = [bc EXCEPT ![t].mid = mid,
                               ![t].pc = IF out = "sent" THEN "setmid"
                                         ELSE "finally",
                               ![t].exc = IF out = "sent" THEN None ELSE out]
    /\ UNCHANGED <<sock, running, io_alive, proto_vars, ext_vars, cb_vars, cur_vars,
                   bc_route, bc_calls>>

\* blocking_request: self._current_msg_id = msg.mid.
BlockingSetMid(t) ==
    /\ bc[t].pc = "setmid"
    /\ current_msg_id' = bc[t].mid
    /\ bc' = [bc EXCEPT ![t].pc = "wait"]
    /\ UNCHANGED <<request_end, current_name, current_informs, current_reply,
                   current_inform_count, bc_route, bc_calls, dc_vars, ext_vars, cb_vars>>

\* Mutant of KeepWaiting: a new inform restarts the wait whatever
\* keepalive says.
KeepWaitingWithoutKeepalive(keepalive) ==
    /\ ~request_end
    /\ Len(current_informs) # current_inform_count

\* blocking_request, the wait loop after _request_end.wait(timeout) came
\* back: whether the loop goes round again.
KeepWaiting(keepalive) ==
    /\ ~request_end /\ keepalive
    /\ Len(current_informs) # current_inform_count

\* blocking_request: one turn of the wait loop; wait() came back because
\* the event was set or because the timeout passed.  len(None) raises
\* TypeError.
BlockingWait(t) ==
    /\ bc[t].pc = "wait"
    /\ IF ~request_end /\ bc[t].keepalive /\ current_informs = NoInforms
       THEN /\ bc' = [bc EXCEPT ![t].pc = "finally", ![t].exc = "TypeError"]
            /\ UNCHANGED current_inform_count
       ELSE IF KeepWaiting(bc[t].keepalive)
            THEN /\ current_inform_count' = Len(current_informs)
                 /\ bc' = [bc EXCEPT ![t].seen = Len(current_informs)]
            ELSE /\ bc' = [bc EXCEPT ![t].pc = "finally"]
                 /\ UNCHANGED current_inform_count
    /\ UNCHANGED <<request_end, current_name, current_msg_id, current_informs,
                   current_reply, bc_route, bc_calls, dc_vars, ext_vars, cb_vars>>

\* Mutant of BlockingOutcome: the finally clause swallows the exception.
BlockingOutcomeSwallowed(exc) ==
    IF request_end THEN "returned" ELSE "timeout"

\* blocking_request: how the call ends, given the exception on its way out
\* of the try block: that exception, or by success = _request_end.isSet()
\* a return or RuntimeError("Request ... timed out").
BlockingOutcome(exc) ==
    IF exc # None THEN exc
    ELSE IF request_end THEN "returned" ELSE "timeout"

\* blocking_request, the locked section of the finally clause, up to the
\* return or raise after it.
BlockingFinally(t) ==
    /\ bc[t].pc = "finally"
    /\ bc' = [bc EXCEPT
                 ![t].pc = "end",
                 ![t].result = BlockingOutcome(bc[t].exc),
                 ![t].reply = IF BlockingOutcome(bc[t].exc) = "returned"
                              THEN current_reply ELSE NoMessage,
                 ![t].informs = IF BlockingOutcome(bc[t].exc) = "returned"
                                THEN current_informs ELSE NoInforms]
    /\ request_end' = FALSE
    /\ current_inform_count' = NoCount
    /\ current_informs' = NoInforms
    /\ current_reply' = NoMessage
    /\ current_name' = None
    /\ current_msg_id' = None
    /\ UNCHANGED <<bc_route, bc_calls, dc_vars, ext_vars, cb_vars>>

\* blocking_request has returned or raised; its locals are gone.
BlockingReturn(t) ==
    /\ bc[t].pc = "end"
    /\ bc' = [bc EXCEPT ![t] = IdleCaller]
    /\ UNCHANGED <<cur_vars, bc_route, bc_calls, dc_vars, ext_vars, cb_vars>>

\* BlockingClient.handle_inform on the I/O thread.  A matching inform is
\* appended to the list ("taken"); None.append raises AttributeError, which
\* nothing up to run() catches; any other inform goes to
\* DeviceClient.handle_inform ("base").
BCHandleInform(name, mid) ==
    /\ io_alive /\ sock
    /\ LET msg == ServerInform(name, mid)
       IN  IF MessageMatches(msg)
           THEN IF current_informs = NoInforms
                THEN /\ io_alive' = FALSE
                     /\ bc_route' = "raised"
                     /\ UNCHANGED current_informs
                ELSE /\ Len(current_informs) < MaxInforms
                     /\ current_informs' = Append(current_informs, msg)
                     /\ bc_route' = "taken"
                     /\ UNCHANGED io_alive
           ELSE /\ bc_route' = "base"
                /\ UNCHANGED <<current_informs, io_alive>>
    /\ UNCHANGED <<request_end, current_name, current_msg_id, current_reply,
                   current_inform_count, bc, bc_calls>>
    /\ UNCHANGED <<sock, running, proto_vars, last_msg_id, wire, ext_vars, cb_vars>>

\* BlockingClient.handle_reply on the I/O thread.
BCHandleReply(name, mid) ==
    /\ io_alive /\ sock
    /\ LET msg == ServerReply(name, mid)
       IN  IF MessageMatches(msg)
           THEN /\ current_name' = None
                /\ current_reply' = msg
                /\ request_end' = TRUE
                /\ bc_route' = "taken"
           ELSE /\ bc_route' = "base"
                /\ UNCHANGED <<current_name, current_reply, request_end>>
    /\ UNCHANGED <<current_msg_id, current_informs, current_inform_count,
                   bc, bc_calls, dc_vars, ext_vars, cb_vars>>

\* --------------------------------------------------- the socket level
\* The threads: the I/O thread in run(), caller threads that each call
\* send_message once, a caller thread that calls stop() once.
IOThread == "io"
Senders == {"s1", "s2"}
Stopper == "st"
Threads == {IOThread, Stopper} \cup Senders

\* A local variable sock that is None (an index into socks otherwise).
NoSock == 0

\* A socket just connected: open, nothing written to it.  stream is what
\* was written, each byte as <<sending thread, position in its data>>.
NewSocket == [open |-> TRUE, stream |-> <<>>]

\* A thread at pc with its locals unset: sock (send_message, _disconnect,
\* run), totalsent, send_failed, whether e is bound (send_message), where
\* _disconnect returns to, where _connect returns to (run), and how the
\* call of a caller thread, or run(), ended.
Thread(pc) ==
    [pc |-> pc, sock |-> NoSock, back |-> None, ret |-> "loop",
     totalsent |-> 0, send_failed |-> FALSE, e |-> FALSE, result |-> None]

\* self._sock, as a local variable holds it.
CurrentSock == IF sock THEN Len(socks) ELSE NoSock

\* run, before the loop: without auto_reconnect, self._connect() first;
\* with it, self._running.set().
RunStart ==
    /\ th[IOThread].pc = "start"
    /\ IF auto_reconnect
       THEN /\ running' = TRUE
            /\ th' = [th EXCEPT ![IOThread].pc = "loop"]
       ELSE /\ th' = [th EXCEPT ![IOThread].pc = "connect",
                               ![IOThread].ret = "check"]
            /\ UNCHANGED running
    /\ UNCHANGED <<sock, io_alive, proto_vars, last_msg_id, wire, cb_vars,
                   bc_vars, codec, fr_vars, connected, socks, upcalls,
                   send_lock, life_vars>>

\* run, without auto_reconnect, after the first self._connect(): if not
\* self.is_connected(), KatcpClientError leaves run(); else
\* self._running.set().
RunCheck ==
    /\ th[IOThread].pc = "check"
    /\ IF sock
       THEN /\ running' = TRUE
            /\ th' = [th EXCEPT ![IOThread].pc = "loop", ![IOThread].ret = "loop"]
       ELSE /\ th' = [th EXCEPT ![IOThread].pc = "ended",
                               ![IOThread].result = "ClientError"]
            /\ UNCHANGED running
    /\ io_alive' = sock
    /\ UNCHANGED <<sock, proto_vars, last_msg_id, wire, cb_vars, bc_vars,
                   codec, fr_vars, connected, socks, upcalls, send_lock,
                   life_vars>>

\* run: the while test and sock = self._sock; without a socket and without
\* auto_reconnect, self._running.clear() and break; after the loop, the
\* final self._disconnect().
RunLoop ==
    /\ th[IOThread].pc = "loop"
    /\ LET leave == ~running \/ (~sock /\ ~auto_reconnect)
       IN  /\ th' = [th EXCEPT
                        ![IOThread].sock = CurrentSock,
                        ![IOThread].pc = IF leave THEN "disconnect"
                                         ELSE IF sock THEN "select"
                                         ELSE "connect",
                        ![IOThread].back = IF leave THEN "ended" ELSE "loop",
                        ![IOThread].ret = "loop"]
           /\ running' = (running /\ (sock \/ auto_reconnect))
    /\ UNCHANGED <<sock, io_alive, proto_vars, last_msg_id, wire, cb_vars,
                   bc_vars, codec, fr_vars, connected, socks, upcalls,
                   send_lock, life_vars>>

\* run: select and recv on sock.  Either there is nothing to do for the
\* connection (a timeout, or a chunk that is handled), or select reports an
\* error or recv the end of the stream and self._disconnect() is called;
\* on a socket that was closed meanwhile only the latter.
RunSelect(lost) ==
    /\ th[IOThread].pc = "select"
    /\ lost \/ socks[th[IOThread].sock].open
    /\ th' = [th EXCEPT ![IOThread].pc = IF lost THEN "disconnect" ELSE "loop",
                        ![IOThread].back = "loop"]
    /\ UNCHANGED <<dc_vars, cb_vars, bc_vars, codec, fr_vars, connected,
                   socks, upcalls, send_lock,
                   life_vars>>

\* run: self._connect(), up to self._connected.set(); it may fail.
RunConnect(ok) ==
    /\ th[IOThread].pc = "connect"
    /\ ok => Len(socks) < MaxConnects
    /\ IF ok
       THEN /\ socks' = Append(socks, NewSocket)
            /\ sock' = TRUE
            /\ waiting_chunk' = <<>>
            /\ connected' = TRUE
            /\ th' = [th EXCEPT ![IOThread].pc = "notify"]
       ELSE /\ th' = [th EXCEPT ![IOThread].pc = th[IOThread].ret]
            /\ UNCHANGED <<socks, sock, waiting_chunk, connected>>
    /\ UNCHANGED <<running, io_alive, proto_vars, last_msg_id, wire, cb_vars,
                   bc_vars, codec, stream, lines, handled, upcalls, send_lock,
                   life_vars>>

\* _connect: self.notify_connected(True); when the upcall raises,
\* self._disconnect() is called.
RunNotify(raises) ==
    /\ th[IOThread].pc = "notify"
    /\ upcalls' = Append(upcalls, TRUE)
    /\ th' = [th EXCEPT ![IOThread].pc = IF raises THEN "disconnect"
                                          ELSE th[IOThread].ret,
                        ![IOThread].back = th[IOThread].ret]
    /\ UNCHANGED <<dc_vars, cb_vars, bc_vars, codec, fr_vars, connected,
                   socks, send_lock,
                   life_vars>>

\* _disconnect on thread t: sock = self._sock.
DisconnectRead(t) ==
    /\ th[t].pc = "disconnect"
    /\ th' = [th EXCEPT ![t].sock = CurrentSock, ![t].pc = "disconnect_clear"]
    /\ UNCHANGED <<dc_vars, cb_vars, bc_vars, codec, fr_vars, connected,
                   socks, upcalls, send_lock,
                   life_vars>>

\* _disconnect on thread t: self._sock = None.
DisconnectClear(t) ==
    /\ th[t].pc = "disconnect_clear"
    /\ sock' = FALSE
    /\ th' = [th EXCEPT ![t].pc = "disconnect_close"]
    /\ UNCHANGED <<running, io_alive, proto_vars, last_msg_id, wire, cb_vars,
                   bc_vars, codec, fr_vars, connected, socks, upcalls,
                   send_lock,
                   life_vars>>

\* Where thread t is after _disconnect: back in its caller, or, when the
\* upcall raised, out of run() (the I/O thread) or of send_message (a
\* caller thread) with the exception.
AfterDisconnect(t, raised) ==
    IF raised
    THEN [th[t] EXCEPT !.pc = IF t = IOThread THEN "crashed" ELSE "done",
                       !.result = "UpcallError"]
    ELSE [th[t] EXCEPT !.pc = th[t].back,
                       !.result = IF th[t].back = "done" THEN "returned"
                                  ELSE th[t].result]

\* _disconnect on thread t: if sock is not None, sock.close(),
\* self._connected.clear() and self.notify_connected(False).
DisconnectClose(t, raises) ==
    /\ th[t].pc = "disconnect_close"
    /\ IF th[t].sock # NoSock
       THEN /\ socks' = [socks EXCEPT ![th[t].sock].open = FALSE]
            /\ connected' = FALSE
            /\ upcalls' = Append(upcalls, FALSE)
            /\ th' = [th EXCEPT ![t] = AfterDisconnect(t, raises)]
       ELSE /\ ~raises
            /\ th' = [th EXCEPT ![t] = AfterDisconnect(t, FALSE)]
            /\ UNCHANGED <<socks, connected, upcalls>>
    /\ io_alive' = (io_alive /\ th'[IOThread].pc \notin {"ended", "crashed"})
    /\ UNCHANGED <<sock, running, proto_vars, last_msg_id, wire, cb_vars,
                   bc_vars, codec, fr_vars, send_lock,
                   life_vars>>

\* send_message on thread t, up to sock = self._sock.
SendBegin(t) ==
    /\ th[t].pc = "idle"
    /\ th' = [th EXCEPT ![t].sock = CurrentSock, ![t].pc = "lock"]
    /\ UNCHANGED <<dc_vars, cb_vars, bc_vars, codec, fr_vars, connected,
                   socks, upcalls, send_lock,
                   life_vars>>

\* Mutant of LockFree: self._send_lock is not waited for.
LockFreeAlways == TRUE

\* self._send_lock.acquire() does not block.
LockFree == send_lock = None

\* Mutant of NotConnected: no test for a missing socket.
NotConnectedNever(s) == FALSE

\* send_message: if sock is None.
NotConnected(s) == s = NoSock

\* send_message on thread t: the lock is acquired; without a socket
\* KatcpClientError is raised (and the lock released on the way out).
SendLock(t) ==
    /\ th[t].pc = "lock"
    /\ LockFree
    /\ IF NotConnected(th[t].sock)
       THEN /\ th' = [th EXCEPT ![t].pc = "done", ![t].result = "ClientError"]
            /\ UNCHANGED send_lock
       ELSE /\ th' = [th EXCEPT ![t].pc = "write"]
            /\ send_lock' = t
    /\ UNCHANGED <<dc_vars, cb_vars, bc_vars, codec, fr_vars, connected,
                   socks, upcalls,
                   life_vars>>

\* What one sock.send call may do.
SendOutcomes == {"sent", "zero", "EAGAIN", "error"}

\* send_message on thread t: one turn of the while loop, sock.send sending
\* n bytes ("sent"), returning 0, raising EAGAIN or another socket.error
\* (the only outcome on a closed socket); after the loop the lock is
\* released.
SendWrite(t, outcome, n) ==
    /\ th[t].pc = "write"
    /\ LET s == th[t].sock
           usable == s # NoSock /\ socks[s].open
           retry == outcome = "EAGAIN" /\ s = CurrentSock
           failed == outcome \in {"zero", "error"}
                         \/ (outcome = "EAGAIN" /\ s # CurrentSock)
           total == th[t].totalsent + n
       IN  /\ outcome # "error" => usable
           /\ IF outcome = "sent"
              THEN /\ n \in 1..(DataLen - th[t].totalsent)
                   /\ socks' = [socks EXCEPT ![s].stream =
                          @ \o [k \in 1..n |-> <<t, th[t].totalsent + k>>]]
                   /\ th' = [th EXCEPT
                                ![t].totalsent = total,
                                ![t].pc = IF total = DataLen THEN "done"
                                          ELSE "write",
                                ![t].result = IF total = DataLen
                                              THEN "returned" ELSE None]
                   /\ send_lock' = IF total = DataLen /\ send_lock = t
                                   THEN None ELSE send_lock
              ELSE /\ n = 1
                   /\ th' = [th EXCEPT
                                ![t].e = @ \/ outcome \in {"EAGAIN", "error"},
                                ![t].send_failed = failed,
                                ![t].pc = IF retry THEN "write" ELSE "failed"]
                   /\ send_lock' = IF ~retry /\ send_lock = t
                                   THEN None ELSE send_lock
                   /\ UNCHANGED socks
    /\ UNCHANGED <<dc_vars, cb_vars, bc_vars, codec, fr_vars, connected,
                   upcalls,
                   life_vars>>

\* send_message on thread t, if send_failed: the log message is built from
\* e, which is unbound unless sock.send raised (UnboundLocalError), and
\* self._disconnect() is called.
SendFailed(t) ==
    /\ th[t].pc = "failed"
    /\ th' = [th EXCEPT
                 ![t].pc = IF th[t].e THEN "disconnect" ELSE "done",
                 ![t].back = "done",
                 ![t].result = IF th[t].e THEN None ELSE "UnboundLocalError"]
    /\ UNCHANGED <<dc_vars, cb_vars, bc_vars, codec, fr_vars, connected,
                   socks, upcalls, send_lock,
                   life_vars>>

\* Mutant of StopOutcome: stop() never raises.
StopOutcomeNeverRaises(is_set) == "returned"

\* DeviceClient.stop: how it ends, given self._running.isSet().
StopOutcome(is_set) == IF is_set THEN "returned" ELSE "RuntimeError"

\* DeviceClient.stop(timeout) on the stopping thread:
\* self._running.wait(timeout) comes back, at once when the flag is set and
\* else when the timeout has elapsed (e holds that it has).
StopWait ==
    /\ th[Stopper].pc = "idle"
    /\ th' = [th EXCEPT ![Stopper].pc = "stop_check", ![Stopper].e = ~running]
    /\ UNCHANGED <<dc_vars, cb_vars, bc_vars, codec, fr_vars, connected,
                   socks, upcalls, send_lock,
                   life_vars>>

\* DeviceClient.stop: the test of the flag, RuntimeError or
\* self._running.clear().
StopCheck ==
    /\ th[Stopper].pc = "stop_check"
    /\ running' = FALSE
    /\ th' = [th EXCEPT ![Stopper].pc = "done",
                        ![Stopper].result = StopOutcome(running)]
    /\ UNCHANGED <<sock, io_alive, proto_vars, last_msg_id, wire, cb_vars,
                   bc_vars, codec, fr_vars, connected, socks, upcalls,
                   send_lock,
                   life_vars>>

\* ------------------------------------------------- CallbackClient.join
\* The caller thread of join() before the call: where it is, the timers it
\* has yet to join, whether it was given a timeout.
NoJoin == [pc |-> "idle", todo |-> {}, timeout |-> FALSE]

\* CallbackClient.join(timeout), called after stop(): with self._async_lock
\* taken, the loop over self._async_queue.values() begins (the lock is
\* released at once when there is nothing to loop over).
JoinBegin(timeout) ==
    /\ jn.pc = "idle"
    /\ ~running
    /\ AsyncLockFree
    /\ jn' = [pc |-> IF InQueueNow = {} THEN "thread" ELSE "timers",
              todo |-> InQueueNow, timeout |-> timeout]
    /\ async_lock' = IF InQueueNow = {} THEN None ELSE "join"
    /\ UNCHANGED <<dc_vars, cb_vars, bc_vars, codec, fr_vars, connected,
                   io_vars, auto_reconnect, logged, id_vars>>

\* threading.Thread.join(timeout) on the timer of request i comes back:
\* the thread has ended (the timer was cancelled, or _handle_timeout is
\* done), or the timeout given has elapsed.
TimerJoined(i, timeout) ==
    timers[i] \in {"cancelled", "done"} \/ timeout

\* CallbackClient.join: one turn of the loop, for the entry of request i:
\* no timer, a timer that was never started (Thread.join raises
\* RuntimeError) or timer.join(timeout=timeout); after the last turn the
\* lock is released.
JoinTimer(i) ==
    /\ jn.pc = "timers"
    /\ i \in jn.todo
    /\ timers[i] \notin {"none", "new"} => TimerJoined(i, jn.timeout)
    /\ jn' = [jn EXCEPT
                 !.todo = @ \ {i},
                 !.pc = IF timers[i] = "new" THEN "raised"
                        ELSE IF jn.todo = {i} THEN "thread" ELSE "timers"]
    /\ async_lock' = IF timers[i] = "new" \/ jn.todo = {i} THEN None
                     ELSE async_lock
    /\ UNCHANGED <<dc_vars, cb_vars, bc_vars, codec, fr_vars, connected,
                   io_vars, auto_reconnect, logged, id_vars>>

\* DeviceClient.join(timeout): self._thread.join(timeout) comes back, the
\* I/O thread having left run() or the timeout given having elapsed.
JoinThread ==
    /\ jn.pc = "thread"
    /\ ~io_alive \/ jn.timeout
    /\ jn' = [jn EXCEPT !.pc = "returned"]
    /\ UNCHANGED <<dc_vars, cb_vars, bc_vars, codec, fr_vars, connected,
                   io_vars, auto_reconnect, async_lock, logged, id_vars>>

\* ------------------------------------------------------ specifications
\* BlockingClient.__init__, with the caller threads that will use the client.
BlockingInit(callers) ==
    /\ request_end = FALSE
    /\ current_name = None
    /\ current_msg_id = None
    /\ current_informs = NoInforms
    /\ current_reply = NoMessage
    /\ current_inform_count = NoCount
    /\ bc = [t \in callers |-> IdleCaller]
    /\ bc_route = "none"
    /\ bc_calls = 0

\* Nothing is given to the codec.
CodecInit == codec = NoCodec

\* DeviceClient.__init__ and a first _connect: nothing received yet.
FramerInit ==
    /\ waiting_chunk = <<>>
    /\ stream = <<>>
    /\ lines = <<>>
    /\ handled = <<>>

\* A connected client whose sockets, upcalls and threads are not followed.
SocketsInit ==
    /\ connected = TRUE
    /\ socks = <<>>
    /\ upcalls = <<>>
    /\ send_lock = None
    /\ th = <<>>

\* A client made with auto_reconnect (the default), nobody in join().
LifeInit ==
    /\ auto_reconnect = TRUE
    /\ async_lock = None
    /\ jn = NoJoin
    /\ logged = <<>>
    /\ msg_id_lock = None
    /\ nx = [t \in Senders |-> IdleRequest]

\* DeviceClient.__init__ and CallbackClient.__init__, then start() and a
\* first _connect: a connected client that has received nothing yet.
DeviceInit ==
    /\ sock = TRUE
    /\ running = TRUE
    /\ io_alive = TRUE
    /\ server_supports_ids = FALSE
    /\ protocol_info = NoProtocolInfo
    /\ received_protocol_info = FALSE
    /\ last_msg_id = 0
    /\ wire = <<>>
    /\ async_queue = <<>>
    /\ async_id_stack = [n \in Names |-> <<>>]
    /\ reqs = <<>>
    /\ timers = <<>>
    /\ io_reply = NoMessage
    /\ last = NoRequest

\* A started, connected client that has received nothing yet.
Init ==
    /\ DeviceInit
    /\ BlockingInit({})
    /\ CodecInit /\ FramerInit /\ SocketsInit /\ LifeInit

\* The arguments a #version-connect inform may carry.
VersionArgs ==
    {<<>>, <<"katcp-protocol">>, <<"build-state", "5.0-M">>}
        \cup {<<"katcp-protocol", v>> : v \in Versions}

\* The MIDs on the replies and informs the server sends while informs
\* are followed.
InformMids == {"1", None}

\* What a caller may pass to request().
UseMids == {None, "True", "False"}
MsgMids == ExplicitMids \cup {None}

\* The handshake and the requests of a DeviceClient (here a CallbackClient).
NextDC ==
    \/ \E args \in VersionArgs : InformVersionConnect(args)
    \/ \E name \in Names, msg_mid \in MsgMids, use_mid \in UseMids,
          timeout \in BOOLEAN :
            RequestCall(name, msg_mid, use_mid, timeout)
    \/ \E i \in DOMAIN reqs : RequestPush(i)
    \/ Disconnect
    \/ Connect

SpecDC == Init /\ [][NextDC]_vars

\* A started, connected CallbackClient with nothing pending, before the
\* handshake or after the server has advertised protocol version 5.0.
InitCB ==
    /\ sock = TRUE
    /\ running = TRUE
    /\ io_alive = TRUE
    /\ protocol_info \in {NoProtocolInfo, [major |-> 5, minor |-> 0, flags |-> {}]}
    /\ server_supports_ids = Supports(protocol_info)
    /\ received_protocol_info = (protocol_info # NoProtocolInfo)
    /\ last_msg_id = 0
    /\ wire = <<>>
    /\ async_queue = <<>>
    /\ async_id_stack = [n \in Names |-> <<>>]
    /\ reqs = <<>>
    /\ timers = <<>>
    /\ io_reply = NoMessage
    /\ last = NoRequest
    /\ BlockingInit({})
    /\ CodecInit /\ FramerInit /\ SocketsInit /\ LifeInit

\* The correlator of a CallbackClient: caller threads in request() and
\* stop(), the I/O thread dispatching replies, the timer threads.  The
\* connection stays up until the client is stopped, and the MIDs are the
\* ones the client assigns.
Next ==
    \/ \E name \in Names, msg_mid \in {None}, use_mid \in UseMids,
          timeout \in BOOLEAN :
            RequestCall(name, msg_mid, use_mid, timeout)
    \/ \E i \in DOMAIN reqs : RequestPush(i)
    \/ \E i \in DOMAIN reqs : RequestDeliver(i)
    \/ \E i \in DOMAIN reqs : RequestDeliverPop(i)
    \/ \E name \in Names, mid \in ServerMids \cup {None} : HandleReply(name, mid)
    \/ HandleReplyPop
    \/ \E i \in DOMAIN timers : TimerExpire(i)
    \/ \E i \in DOMAIN timers : HandleTimeout(i)
    \/ Stop
    \/ LoopExit

Spec == InitCB /\ [][Next]_vars

\* The correlator of a running CallbackClient with the informs: caller
\* threads in request(), the I/O thread dispatching replies and informs;
\* the callbacks return and no timer fires.
NextInf ==
    \/ \E name \in Names, use_mid \in UseMids, timeout \in BOOLEAN :
            RequestCall(name, None, use_mid, timeout)
    \/ \E i \in DOMAIN reqs : RequestPush(i)
    \/ \E name \in Names, mid \in InformMids : HandleReply(name, mid)
    \/ HandleReplyPop
    \/ \E name \in Names, mid \in InformMids :
            HandleInform(name, mid, None)

SpecInf == InitCB /\ [][NextInf]_vars

\* A connected client that the server sends requests to, losing and
\* regaining its connection.
NextReq ==
    \/ \E name \in Names, mid \in InformMids, exc \in CallbackOutcomes,
          reply \in HandlerReturns :
            HandleRequest(name, mid, exc, reply)
    \/ Disconnect
    \/ Connect

SpecReq == InitCB /\ [][NextReq]_vars

\* The reply a well-behaved handler of ?x returns.
GoodReply == Message(REPLY, "x", None, "ok")

\* A CallbackClient whose callbacks and handlers may raise: requests named
\* x, and the replies, informs and requests of the server dispatched on
\* the I/O thread.
NextExc ==
    \/ \E timeout \in BOOLEAN : RequestCall("x", None, None, timeout)
    \/ \E i \in DOMAIN reqs : RequestPush(i)
    \/ \E mid \in InformMids, exc \in CallbackOutcomes :
            HandleReplyCb("x", mid, exc)
    \/ \E exc \in CallbackOutcomes : HandleReplyPopCb(exc)
    \/ \E mid \in InformMids, exc \in CallbackOutcomes :
            HandleInform("x", mid, exc)
    \/ \E mid \in InformMids, exc \in CallbackOutcomes :
            HandleRequest("x", mid, exc,
                          IF exc = None THEN GoodReply ELSE NoMessage)

SpecExc == InitCB /\ [][NextExc]_vars

\* Caller threads that call request() with MIDs, all at once.
NextIds ==
    \/ \E t \in Senders : NextIdCall(t)
    \/ \E t \in Senders : NextIdAcquire(t)
    \/ \E t \in Senders : NextIdLoad(t)
    \/ \E t \in Senders : NextIdStore(t)
    \/ \E t \in Senders : NextIdReturn(t)

SpecIds == Init /\ [][NextIds]_vars

\* The steps of the caller thread in join(), of the I/O thread, of caller
\* threads inside request(), and of the timer thread of request i.
JoinSteps == (\E i \in 1..MaxRequests : JoinTimer(i)) \/ JoinThread
IOSteps == HandleReplyPop \/ LoopExit
CallerSteps ==
    \E i \in 1..MaxRequests :
        RequestPush(i) \/ RequestDeliver(i) \/ RequestDeliverPop(i)
TimerSteps(i) == TimerExpire(i) \/ HandleTimeout(i)

\* The CallbackClient from request() to stop() and join(): the correlator
\* with requests named x, and a caller thread that calls join(), with or
\* without a timeout, once stop() has been called.
NextJoin ==
    \/ \E timeout \in BOOLEAN : RequestCall("x", None, None, timeout)
    \/ \E i \in DOMAIN reqs : RequestPush(i)
    \/ \E i \in DOMAIN reqs : RequestDeliver(i)
    \/ \E i \in DOMAIN reqs : RequestDeliverPop(i)
    \/ \E mid \in {"1", None} : HandleReply("x", mid)
    \/ HandleReplyPop
    \/ \E i \in DOMAIN timers : TimerExpire(i)
    \/ \E i \in DOMAIN timers : HandleTimeout(i)
    \/ Stop
    \/ LoopExit
    \/ \E timeout \in BOOLEAN : JoinBegin(timeout)
    \/ \E i \in DOMAIN reqs : JoinTimer(i)
    \/ JoinThread

\* Every thread that can take a step eventually takes one: Python's
\* threads are all scheduled, the I/O loop's select returns after 0.5 s
\* at most, a timer's interval ends.
SpecJoin ==
    /\ InitCB
    /\ [][NextJoin]_vars
    /\ WF_vars(JoinSteps)
    /\ WF_vars(IOSteps)
    /\ WF_vars(CallerSteps)
    /\ \A i \in 1..MaxRequests : WF_vars(TimerSteps(i))

\* A started, connected BlockingClient, before the handshake or after the
\* server has advertised protocol version 5.0, used by one caller thread.
InitBC ==
    /\ sock = TRUE
    /\ running = TRUE
    /\ io_alive = TRUE
    /\ protocol_info \in {NoProtocolInfo, [major |-> 5, minor |-> 0, flags |-> {}]}
    /\ server_supports_ids = Supports(protocol_info)
    /\ received_protocol_info = (protocol_info # NoProtocolInfo)
    /\ last_msg_id = 0
    /\ wire = <<>>
    /\ async_queue = <<>>
    /\ async_id_stack = [n \in Names |-> <<>>]
    /\ reqs = <<>>
    /\ timers = <<>>
    /\ io_reply = NoMessage
    /\ last = NoRequest
    /\ BlockingInit({1})
    /\ CodecInit /\ FramerInit /\ SocketsInit /\ LifeInit

\* The same client used by two caller threads.
InitBC2 ==
    /\ sock = TRUE
    /\ running = TRUE
    /\ io_alive = TRUE
    /\ protocol_info \in {NoProtocolInfo, [major |-> 5, minor |-> 0, flags |-> {}]}
    /\ server_supports_ids = Supports(protocol_info)
    /\ received_protocol_info = (protocol_info # NoProtocolInfo)
    /\ last_msg_id = 0
    /\ wire = <<>>
    /\ async_queue = <<>>
    /\ async_id_stack = [n \in Names |-> <<>>]
    /\ reqs = <<>>
    /\ timers = <<>>
    /\ io_reply = NoMessage
    /\ last = NoRequest
    /\ BlockingInit({1, 2})
    /\ CodecInit /\ FramerInit /\ SocketsInit /\ LifeInit

\* A BlockingClient: caller threads in blocking_request, the I/O thread
\* dispatching replies and informs, losing and regaining the connection.
NextBC ==
    \/ \E t \in DOMAIN bc, name \in Names, use_mid \in UseMids,
          keepalive \in BOOLEAN :
            BlockingBegin(t, name, None, use_mid, keepalive)
    \/ \E t \in DOMAIN bc : BlockingSend(t)
    \/ \E t \in DOMAIN bc : BlockingSetMid(t)
    \/ \E t \in DOMAIN bc : BlockingWait(t)
    \/ \E t \in DOMAIN bc : BlockingFinally(t)
    \/ \E t \in DOMAIN bc : BlockingReturn(t)
    \/ \E name \in Names, mid \in BlockingMids \cup {None} :
            BCHandleInform(name, mid)
    \/ \E name \in Names, mid \in BlockingMids \cup {None} :
            BCHandleReply(name, mid)
    \/ Disconnect
    \/ Connect

SpecBC == InitBC /\ [][NextBC]_vars

\* A BlockingClient used by two caller threads that leave use_mid and
\* keepalive at their defaults, on a connection that stays up; the server
\* sends its informs without MID.
NextBC2 ==
    \/ \E t \in DOMAIN bc, name \in Names :
            BlockingBegin(t, name, None, None, FALSE)
    \/ \E t \in DOMAIN bc : BlockingSend(t)
    \/ \E t \in DOMAIN bc : BlockingSetMid(t)
    \/ \E t \in DOMAIN bc : BlockingWait(t)
    \/ \E t \in DOMAIN bc : BlockingFinally(t)
    \/ \E t \in DOMAIN bc : BlockingReturn(t)
    \/ \E name \in Names : BCHandleInform(name, None)
    \/ \E name \in Names, mid \in BlockingMids \cup {None} :
            BCHandleReply(name, mid)

SpecBC2 == InitBC2 /\ [][NextBC2]_vars

\* The sequences over S of length at most n.
BoundedSeq(S, n) == UNION {[1..k -> S] : k \in 0..n}

\* The bytes of the arguments given to the codec: every byte that is
\* escaped, a plain letter, and a letter that is also an escape code.
ArgBytes == Escaped \cup {"a", "n"}
\* Names that match the name grammar.
CodecNames == {<<"a">>, <<"n", DASH, "1">>}
\* The well-formed Messages given to the codec.
CodecMessages ==
    {Msg(mtype, name, arguments) :
        mtype \in MessageTypes, name \in CodecNames,
        arguments \in BoundedSeq(BoundedSeq(ArgBytes, MaxArgLen), MaxArgs)}

\* A well-formed Message in hand.
InitCodec ==
    /\ DeviceInit
    /\ BlockingInit({})
    /\ FramerInit /\ SocketsInit /\ LifeInit
    /\ \E msg \in CodecMessages :
           codec = [NoCodec EXCEPT !.pc = "made", !.msg = msg]

\* The codec: a Message is serialized and the line parsed.
NextCodec ==
    \/ CodecSerialize
    \/ CodecParse

SpecCodec == InitCodec /\ [][NextCodec]_vars

\* The bytes of lines that probe the type and the name: a type symbol, a
\* byte that is none, a letter, a digit, a dash, a dot and a space.
HeadBytes == {REQUEST, "^", "a", "1", DASH, ".", SP}
\* The bytes of argument sections: the specials, the escape codes that are
\* not specials, and a letter that is no escape code.
TailBytes ==
    {SP, TAB, ESC, LF, CR, BS, NUL, "0", "n", "r", "e", "t", "x"}
\* The lines of src/test/test_katcp_bnf.py (test_escape_sequences,
\* test_lexer_errors, test_empty_params) and names of several bytes.
TestLines ==
    {<<REQUEST, "f", "o", "o", SP,
       BS, BS, BS, SP, BS, "0", BS, "n", BS, "r", BS, "e", BS, "t">>,
     <<>>,
     <<"^", "f", "o", "o">>,
     <<REPLY, "f", "o", "o", SP, "t", "a", "b", TAB, "a", "r", "g">>,
     <<REPLY, "f", "o", "o", SP>>,
     <<REPLY, "f", "o", "o", SP, SP>>,
     <<REPLY, "f", "o", "o", SP, BS, SP, SP, BS, SP, SP>>,
     <<REQUEST, "1", "b", "a", "d">>,
     <<REQUEST, DASH, "b", "a", "d">>,
     <<REQUEST, "b", "a", "d", ".", "n", "a", "m", "e">>,
     <<REQUEST, "a">>,
     <<REQUEST, "a", DASH, "b", DASH, "c">>,
     <<REQUEST, "a", "b", "c", "1", "2", "3">>}
\* The lines given to the parser.
ParseLines ==
    BoundedSeq(HeadBytes, MaxHead)
        \cup {<<REQUEST, "a", SP>> \o tail : tail \in BoundedSeq(TailBytes, MaxTail)}
        \cup TestLines

\* A line in hand.
InitParse ==
    /\ DeviceInit
    /\ BlockingInit({})
    /\ FramerInit /\ SocketsInit /\ LifeInit
    /\ \E line \in ParseLines :
           codec = [NoCodec EXCEPT !.pc = "line", !.line = line]

\* The parser: the line is parsed.
NextParse == CodecParse

SpecParse == InitParse /\ [][NextParse]_vars

\* The bytes the server sends, and the chunks recv may return.
FrameBytes == {REPLY, "a", LF, CR}
Chunks == BoundedSeq(FrameBytes, MaxChunk) \ {<<>>}

\* The framer of a connected client: the I/O thread receives chunks, loses
\* the connection and connects again.
NextFramer ==
    \/ \E chunk \in Chunks : HandleChunk(chunk)
    \/ Disconnect
    \/ Connect

SpecFramer == Init /\ [][NextFramer]_vars

\* A client just started: the I/O thread is about to enter its loop, not
\* connected; the caller threads have not called yet.
InitIO ==
    /\ sock = FALSE
    /\ running = FALSE
    /\ io_alive = TRUE
    /\ server_supports_ids = FALSE
    /\ protocol_info = NoProtocolInfo
    /\ received_protocol_info = FALSE
    /\ last_msg_id = 0
    /\ wire = <<>>
    /\ async_queue = <<>>
    /\ async_id_stack = [n \in Names |-> <<>>]
    /\ reqs = <<>>
    /\ timers = <<>>
    /\ io_reply = NoMessage
    /\ last = NoRequest
    /\ BlockingInit({})
    /\ CodecInit /\ FramerInit
    /\ connected = FALSE
    /\ socks = <<>>
    /\ upcalls = <<>>
    /\ send_lock = None
    /\ th = [t \in Threads |-> IF t = IOThread THEN Thread("start")
                               ELSE Thread("idle")]
    /\ LifeInit

\* The socket level of a DeviceClient with auto_reconnect: the I/O thread
\* connecting, selecting and disconnecting, caller threads in send_message
\* and in stop().
NextIO ==
    \/ RunStart
    \/ RunLoop
    \/ \E lost \in BOOLEAN : RunSelect(lost)
    \/ \E ok \in BOOLEAN : RunConnect(ok)
    \/ \E raises \in BOOLEAN : RunNotify(raises)
    \/ \E t \in Senders \cup {IOThread} : DisconnectRead(t)
    \/ \E t \in Senders \cup {IOThread} : DisconnectClear(t)
    \/ \E t \in Senders \cup {IOThread}, raises \in BOOLEAN :
            DisconnectClose(t, raises)
    \/ \E t \in Senders : SendBegin(t)
    \/ \E t \in Senders : SendLock(t)
    \/ \E t \in Senders, outcome \in SendOutcomes, n \in 1..DataLen :
            SendWrite(t, outcome, n)
    \/ \E t \in Senders : SendFailed(t)
    \/ StopWait
    \/ StopCheck

SpecIO == InitIO /\ [][NextIO]_vars

\* A client just started, made with or without auto_reconnect; one caller
\* thread will call send_message, one stop().
InitRun ==
    /\ sock = FALSE
    /\ running = FALSE
    /\ io_alive = TRUE
    /\ server_supports_ids = FALSE
    /\ protocol_info = NoProtocolInfo
    /\ received_protocol_info = FALSE
    /\ last_msg_id = 0
    /\ wire = <<>>
    /\ async_queue = <<>>
    /\ async_id_stack = [n \in Names |-> <<>>]
    /\ reqs = <<>>
    /\ timers = <<>>
    /\ io_reply = NoMessage
    /\ last = NoRequest
    /\ BlockingInit({})
    /\ CodecInit /\ FramerInit
    /\ connected = FALSE
    /\ socks = <<>>
    /\ upcalls = <<>>
    /\ send_lock = None
    /\ th = [t \in Threads |->
                 IF t = IOThread THEN Thread("start")
                 ELSE IF t = "s2" THEN Thread("done") ELSE Thread("idle")]
    /\ auto_reconnect \in BOOLEAN
    /\ async_lock = None
    /\ jn = NoJoin
    /\ logged = <<>>
    /\ msg_id_lock = None
    /\ nx = [t \in Senders |-> IdleRequest]

\* The steps of the I/O thread in run().
RunSteps ==
    \/ RunStart
    \/ RunCheck
    \/ RunLoop
    \/ \E lost \in BOOLEAN : RunSelect(lost)
    \/ \E ok \in BOOLEAN : RunConnect(ok)
    \/ \E raises \in BOOLEAN : RunNotify(raises)
    \/ DisconnectRead(IOThread)
    \/ DisconnectClear(IOThread)
    \/ \E raises \in BOOLEAN : DisconnectClose(IOThread, raises)

\* run() with and without auto_reconnect, beside a caller thread in
\* send_message and one in stop().
NextRun ==
    \/ RunStart
    \/ RunCheck
    \/ RunLoop
    \/ \E lost \in BOOLEAN : RunSelect(lost)
    \/ \E ok \in BOOLEAN : RunConnect(ok)
    \/ \E raises \in BOOLEAN : RunNotify(raises)
    \/ \E t \in {IOThread, "s1"} : DisconnectRead(t)
    \/ \E t \in {IOThread, "s1"} : DisconnectClear(t)
    \/ \E t \in {IOThread, "s1"}, raises \in BOOLEAN : DisconnectClose(t, raises)
    \/ SendBegin("s1")
    \/ SendLock("s1")
    \/ \E outcome \in SendOutcomes, n \in 1..DataLen : SendWrite("s1", outcome, n)
    \/ SendFailed("s1")
    \/ StopWait
    \/ StopCheck

\* The I/O thread is scheduled as long as it is inside run(): select
\* returns after 0.5 s at most, a connect attempt ends, sleep ends.
SpecRun == InitRun /\ [][NextRun]_vars /\ WF_vars(RunSteps)

\* ------------------------------------------------ claims: CallbackClient
\* The requests that have an entry in the pending table.
InQueue == {async_queue[k] : k \in DOMAIN async_queue}

\* The messages request r's reply_cb has been called with.
Received(r) == {reqs[r].cbs[k] : k \in DOMAIN reqs[r].cbs}

\* C1: with MIDs in effect, dispatching a reply that carries MID m while a
\* request with MID m is pending calls that request's reply_cb once with
\* that reply, removes the entry for m from the pending table and from the
\* name stacks, and neither removes another entry nor calls the reply_cb of
\* another request.
C1_MidReplyDelivered ==
    [][\A name \in Names, mid \in ServerMids :
          (HandleReply(name, mid) /\ mid \in DOMAIN async_queue) =>
              LET r == async_queue[mid]
              IN  /\ reqs'[r].cbs = Append(reqs[r].cbs, ServerReply(name, mid))
                  /\ DOMAIN async_queue' = DOMAIN async_queue \ {mid}
                  /\ \A k \in DOMAIN async_queue' :
                         async_queue'[k] = async_queue[k]
                  /\ \A n \in Names : \A k \in DOMAIN async_id_stack'[n] :
                         async_id_stack'[n][k] # mid
                  /\ \A j \in DOMAIN reqs \ {r} : reqs'[j].cbs = reqs[j].cbs]_vars

\* C1 witness: the second request was answered by MID while the first, also
\* sent with a MID, is still pending and has had no callback.
C1_Witness ==
    /\ Len(reqs) = 2
    /\ reqs[1].mid # None /\ 1 \in InQueue /\ reqs[1].cbs = <<>>
    /\ reqs[2].mid # None /\ 2 \notin InQueue
    /\ reqs[2].cbs = <<ServerReply(reqs[2].name, reqs[2].mid)>>

\* The requests named name that were sent without a MID, have been
\* registered by request() and whose reply_cb has not been called yet.
AwaitingLegacy(name) ==
    {i \in DOMAIN reqs : /\ reqs[i].name = name /\ reqs[i].mid = None
                         /\ reqs[i].pc = "done" /\ reqs[i].cbs = <<>>}

Oldest(S) == CHOOSE i \in S : \A j \in S : i <= j

\* C2: without MIDs, a reply named n is delivered to the reply_cb of the
\* oldest request named n that is still awaiting its reply (FIFO).
C2_LegacyFifo ==
    [][\A name \in Names :
          (HandleReplyPop /\ io_reply.name = name /\ AwaitingLegacy(name) # {}) =>
              reqs'[Oldest(AwaitingLegacy(name))].cbs = <<io_reply>>]_vars

\* C3: while the client runs, when the timer of a request fires
\* (_handle_timeout) and the request has had no reply, its reply_cb gets
\* the synthetic timeout reply; when it already had its reply, nothing is
\* called; and no reply_cb is ever called twice.
C3_TimeoutOnce ==
    [][\A i \in DOMAIN timers :
          (HandleTimeout(i) /\ running) =>
              /\ reqs'[i].cbs = IF reqs[i].cbs = <<>>
                                THEN <<TimeoutReply(reqs[i].name)>>
                                ELSE reqs[i].cbs
              /\ i \notin {async_queue'[k] : k \in DOMAIN async_queue'}
              /\ \A j \in DOMAIN reqs : Len(reqs'[j].cbs) <= 1]_vars

\* C3 restricted to requests sent with a MID: the same statement holds.
C3_TimeoutOnceWithMid ==
    [][\A i \in DOMAIN timers :
          (HandleTimeout(i) /\ running /\ reqs[i].mid # None) =>
              /\ reqs'[i].cbs = IF reqs[i].cbs = <<>>
                                THEN <<TimeoutReply(reqs[i].name)>>
                                ELSE reqs[i].cbs
              /\ i \notin {async_queue'[k] : k \in DOMAIN async_queue'}
              /\ \A j \in DOMAIN reqs : reqs[j].mid # None =>
                                           Len(reqs'[j].cbs) <= 1]_vars

\* C4: a request whose reply_cb was called with the "Client stopped"
\* reply has had its reply_cb called exactly once, whatever reply or timer
\* races with or follows stop().
C4_StopExactlyOnce ==
    \A i \in DOMAIN reqs :
        StoppedReply(reqs[i].name) \in Received(i) => Len(reqs[i].cbs) = 1

\* -------------------------------------------------- claims: DeviceClient
\* The server has advertised MID support on a #version-connect inform.
Advertised == received_protocol_info /\ Supports(protocol_info)

\* C9: a request made with use_mid left at its default (and no MID set on
\* the message) on a connected client is written without a MID when no
\* #version-connect katcp-protocol inform has been received, and otherwise
\* with a MID if and only if the version advertised supports MIDs.
C9_DefaultUseMid ==
    [][\A name \in Names, timeout \in BOOLEAN :
          (RequestCall(name, None, None, timeout) /\ sock) =>
              /\ Len(wire') = Len(wire) + 1
              /\ wire'[Len(wire')].name = name
              /\ (wire'[Len(wire')].mid # None) <=> Advertised]_vars

\* C9 witness: a request written without a MID, then the handshake with a
\* version that supports MIDs, then a request written with the MID "1".
C9_Witness ==
    /\ Advertised
    /\ wire = <<[name |-> "x", mid |-> None], [name |-> "x", mid |-> "1"]>>

\* C10: a request that carries a MID (set on the message by the caller, or
\* asked for with use_mid=True) while the server has not advertised MID
\* support ends with KatcpVersionError: nothing is written, no timer is
\* created and the pending table and the name stacks are left alone; and a
\* request that ended so is never registered later.
C10_VersionError ==
    [][/\ \A name \in Names, msg_mid \in MsgMids, use_mid \in UseMids,
             timeout \in BOOLEAN :
               (/\ RequestCall(name, msg_mid, use_mid, timeout)
                /\ (msg_mid # None \/ use_mid = "True")
                /\ ~Advertised) =>
                   /\ reqs'[Len(reqs')].pc = "raised"
                   /\ timers'[Len(timers')] = "none"
                   /\ UNCHANGED <<wire, async_queue, async_id_stack>>
       /\ \A i \in DOMAIN reqs :
              reqs[i].pc = "raised" =>
                  /\ reqs'[i] = reqs[i] /\ timers'[i] = "none"
                  /\ i \notin {async_queue'[k] : k \in DOMAIN async_queue'}]_vars

\* C10 witness: a call with use_mid=True before the handshake has raised
\* (it consumed the id 1), and so has a call with an explicit MID; nothing
\* was written or registered.
C10_Witness ==
    /\ ~Advertised /\ Len(reqs) = 2
    /\ reqs[1].pc = "raised" /\ reqs[1].mid = "1"
    /\ reqs[2].pc = "raised" /\ reqs[2].mid = "7"
    /\ wire = <<>> /\ async_queue = <<>> /\ timers = <<"none", "none">>

\* ------------------------------------------------ claims: BlockingClient
\* The pending state of a BlockingClient is clear.
Cleared ==
    /\ ~request_end
    /\ current_name = None /\ current_msg_id = None
    /\ current_reply = NoMessage /\ current_informs = NoInforms

\* The matching rule, spelled out for a message named name with MID mid.
Matching(name, mid) ==
    \/ current_msg_id # None /\ mid = current_msg_id
    \/ current_msg_id = None /\ name = current_name

\* C5: an inbound inform is taken (appended to the inform list) and an
\* inbound reply is taken (recorded, the done-signal set) if and only if
\* the current MID is set and equals msg.mid, or is not set and msg.name
\* equals the current name; every other message goes to the base
\* dispatcher and leaves the recorded reply and the inform list as they
\* were; and between blocking requests no message is taken.
C5_MatchingRule ==
    [][\A name \in Names, mid \in BlockingMids \cup {None} :
          /\ BCHandleInform(name, mid) =>
                IF Matching(name, mid)
                THEN /\ bc_route' = "taken"
                     /\ current_informs' =
                            Append(current_informs, ServerInform(name, mid))
                ELSE /\ bc_route' = "base"
                     /\ UNCHANGED <<current_reply, current_informs>>
          /\ BCHandleReply(name, mid) =>
                IF Matching(name, mid)
                THEN /\ bc_route' = "taken"
                     /\ current_reply' = ServerReply(name, mid)
                     /\ request_end'
                ELSE /\ bc_route' = "base"
                     /\ UNCHANGED <<current_reply, current_informs>>
          /\ (BCHandleInform(name, mid) \/ BCHandleReply(name, mid))
                /\ (\A t \in DOMAIN bc : bc[t].pc = "idle")
                => bc_route' = "base"]_vars

\* C5 witness: with the MID "1" current, an inform and then the reply were
\* taken by that MID though both are named otherwise than the request, and
\* the message after them went to the base dispatcher.
C5_Witness ==
    /\ bc[1].pc = "wait" /\ bc[1].name = "x"
    /\ current_msg_id = "1"
    /\ current_informs = <<ServerInform("y", "1")>>
    /\ current_reply = ServerReply("y", "1")
    /\ bc_route = "base"

\* C6 as stated: the call returns (reply, informs) if and only if a
\* matching reply was recorded before the snapshot and otherwise fails with
\* the timeout error, and the pending state is cleared on every exit path.
C6_ReturnsIffReply ==
    [][\A t \in DOMAIN bc :
          BlockingFinally(t) =>
              /\ bc'[t].result = IF current_reply # NoMessage
                                 THEN "returned" ELSE "timeout"
              /\ bc'[t].result = "returned" =>
                     /\ bc'[t].reply = current_reply
                     /\ bc'[t].informs = current_informs
              /\ Cleared']_vars

\* C6: when request() raised (KatcpVersionError, or KatcpClientError from
\* send), the call ends with that error, whether or not a matching reply
\* was recorded; otherwise it returns (reply, informs) if and only if a
\* matching reply was recorded before the snapshot, and else fails with the
\* timeout error; the informs returned are the recorded ones in their
\* order; on every exit path the pending state is cleared.
C6_BlockingOutcome ==
    [][\A t \in DOMAIN bc :
          BlockingFinally(t) =>
              /\ bc'[t].result = IF bc[t].exc # None THEN bc[t].exc
                                 ELSE IF current_reply # NoMessage
                                      THEN "returned" ELSE "timeout"
              /\ bc'[t].result = "returned" =>
                     /\ bc'[t].reply = current_reply
                     /\ bc'[t].informs = current_informs
              /\ Cleared']_vars

\* C6 witness: the first call was written to the socket; the second, made
\* while disconnected, ends with KatcpClientError and not with the timeout
\* error; a message was taken last; the pending state is clear.
C6_Witness ==
    /\ bc[1].pc = "end" /\ bc[1].result = "ClientError"
    /\ bc_route = "taken" /\ bc_calls = 2 /\ Len(wire) = 1
    /\ Cleared

\* C7: with two caller threads, a step of one call (one that changes its
\* thread's position or locals) never changes the current-request state
\* while another call is in progress.
C7_OneCurrentRequest ==
    [][\A t \in DOMAIN bc, u \in DOMAIN bc :
          (t # u /\ bc[t].pc \notin {"idle", "end"} /\ bc'[t] = bc[t]
                 /\ bc'[u] # bc[u])
              => UNCHANGED cur_vars]_vars

\* C8: when the wait comes back without the done-signal set, the loop
\* waits again if and only if keepalive is true and more informs are
\* recorded than when this wait began; when it does not wait again and no
\* reply is recorded by the snapshot, the call fails with the timeout
\* error.
C8_Keepalive ==
    [][\A t \in DOMAIN bc :
          /\ (BlockingWait(t) /\ ~request_end) =>
                 /\ (bc'[t].pc = "wait") <=>
                        (bc[t].keepalive /\ Len(current_informs) > bc[t].seen)
                 /\ bc'[t].pc \in {"wait", "finally"}
                 /\ bc'[t].exc = None
          /\ (BlockingFinally(t) /\ bc[t].exc = None
                                 /\ current_reply = NoMessage) =>
                 bc'[t].result = "timeout"]_vars

\* C8 witness: a call with keepalive has gone round the loop twice, one
\* inform having arrived during each wait, and is waiting again with no
\* reply yet.
C8_Witness ==
    /\ bc[1].pc = "wait" /\ bc[1].keepalive
    /\ bc[1].seen = 2 /\ Len(current_informs) = 2
    /\ current_inform_count = 2
    /\ ~request_end

\* ----------------------------------------------- claims: the connection
\* C11: while the client is disconnected (and so when it reconnects, until
\* the next #version-connect inform) the protocol-received latch is clear
\* and MID support is reset, so that wait_protocol does not report true
\* and a default use_mid resolves to false.
C11_LatchesCleared ==
    ~sock => /\ ~received_protocol_info
             /\ ~server_supports_ids
             /\ ~ResolveUseMid(None)

\* ------------------------------------------- claims: codec and framer
\* C12: parsing the serialized line of a well-formed Message (any type, a
\* name of the name grammar, any arguments, empty ones and ones with
\* backslash, space, NUL, LF, CR, ESC and TAB included) gives a Message of
\* the same type, the same name and the same arguments.
C12_RoundTrip ==
    codec.pc = "parsed" =>
        /\ codec.out.mtype = codec.msg.mtype
        /\ codec.out.name = codec.msg.name
        /\ codec.out.arguments = codec.msg.arguments

\* C12 witness: a Message whose arguments are a backslash followed by the
\* letter n, and an empty argument, came back from the parser as it was.
C12_Witness ==
    /\ codec.pc = "parsed"
    /\ codec.msg.arguments = <<<<BS, "n">>, <<>>>>
    /\ codec.line = <<INFORM, "n", DASH, "1", SP, BS, BS, "n", SP>>
    /\ codec.out = codec.msg

\* A byte that ends a line.
IsTerminator(char) == char \in {LF, CR}

\* The non-empty lines of a byte stream: its maximal runs of bytes other
\* than LF and CR that a terminator follows, as <<first, last>> positions.
Runs(text) ==
    {r \in (DOMAIN text) \X (DOMAIN text) :
        /\ r[1] <= r[2]
        /\ \A k \in r[1]..r[2] : ~IsTerminator(text[k])
        /\ (r[1] = 1 \/ IsTerminator(text[r[1] - 1]))
        /\ r[2] < Len(text) /\ IsTerminator(text[r[2] + 1])}

\* The same, in order, as texts.
LinesOf(text) ==
    [k \in 1..Cardinality(Runs(text)) |->
        LET r == CHOOSE q \in Runs(text) :
                     Cardinality({o \in Runs(text) : o[1] < q[1]}) = k - 1
        IN  SubSeq(text, r[1], r[2])]

\* What follows the last terminator of a byte stream.
TrailOf(text) ==
    LET ends == {k \in DOMAIN text : IsTerminator(text[k])}
        last_end == IF ends = {} THEN 0
                    ELSE CHOOSE k \in ends : \A j \in ends : j <= k
    IN  SubSeq(text, last_end + 1, Len(text))

\* C18: however the bytes received on a connection were cut into chunks,
\* the lines the framer has handed on are the byte stream split at every
\* LF or CR with the empty lines left out, and the carry-over buffer is
\* the unterminated piece at its end; after a connect both start afresh.
C18_Framing ==
    /\ lines = LinesOf(stream)
    /\ waiting_chunk = TrailOf(stream)

\* C18 witness: a line that ended with CR LF arrived in more than one chunk
\* and was handed on once; the next line is held back, unterminated.
C18_Witness ==
    /\ stream = <<REPLY, "a", CR, LF, "a">>
    /\ lines = <<<<REPLY, "a">>>>
    /\ waiting_chunk = <<"a">>

\* The lines of a sequence of lines that parse, parsed, in order.
RECURSIVE ParsedOf(_)
ParsedOf(ls) ==
    IF ls = <<>> THEN <<>>
    ELSE (IF Parse(Head(ls)) = ParseError THEN <<>> ELSE <<Parse(Head(ls))>>)
             \o ParsedOf(Tail(ls))

\* C19: handling a chunk leaves the socket connected, a complete line that
\* fails to parse is not dispatched, and the lines around it that parse
\* are dispatched, in order.
C19_BadLineDropped ==
    [][\A chunk \in Chunks :
          HandleChunk(chunk) =>
              /\ sock'
              /\ handled' = ParsedOf(lines')]_vars

\* C19 witness: of two complete lines the first did not parse; the second
\* was dispatched, the client is connected.
C19_Witness ==
    /\ sock
    /\ lines = <<<<"a">>, <<REPLY, "a">>>>
    /\ handled = <<Msg("REPLY", <<"a">>, <<>>)>>

\* ---------------------------------------------- claims: the socket level
\* The bytes thread t has to send, as they appear on a socket.
DataOf(t) == [k \in 1..DataLen |-> <<t, k>>]

\* C13: on every socket each byte of a message other than its first
\* directly follows the byte before it of the same message, whatever
\* partial writes and retries there were; and the data of a send_message
\* call that did not fail is on its socket whole, terminator included.
C13_WritesContiguous ==
    /\ \A s \in DOMAIN socks : \A i \in DOMAIN socks[s].stream :
           LET byte == socks[s].stream[i]
           IN  \/ byte[2] = 1
               \/ i > 1 /\ socks[s].stream[i - 1] = <<byte[1], byte[2] - 1>>
    /\ \A t \in Senders :
           (th[t].pc = "done" /\ th[t].result = "returned"
                /\ ~th[t].send_failed) =>
               \E i \in DOMAIN socks[th[t].sock].stream :
                   SubSeq(socks[th[t].sock].stream, i, i + DataLen - 1)
                       = DataOf(t)

\* C13 witness: two threads have sent on the same socket, the first after
\* an EAGAIN; the socket carries one message after the other.
C13_Witness ==
    /\ Len(socks) = 1
    /\ socks[1].stream = DataOf("s1") \o DataOf("s2")
    /\ th["s1"].e /\ th["s1"].result = "returned"
    /\ th["s2"].result = "returned"

\* C14: a send_message call whose write failed (a persistent error, or
\* zero bytes written) ends with an error for its caller, and
\* notify_connected(False) has been called.
C14_SendFailureSurfaced ==
    \A t \in Senders :
        (th[t].pc = "done" /\ th[t].send_failed) =>
            /\ th[t].result # "returned"
            /\ \E i \in DOMAIN upcalls : ~upcalls[i]

C16_UpcallsAlternate ==
    \A i \in DOMAIN upcalls : upcalls[i] = (i % 2 = 1)

\* C17: an exception raised by the notify_connected upcall never leaves
\* the I/O thread: run() is not ended by it.
C17_UpcallContained ==
    th[IOThread].pc # "crashed"

\* C20 as stated: stop() returns only after the I/O loop has exited or the
\* timeout has elapsed.
C20_StopWaitsForExit ==
    [][(StopCheck /\ th'[Stopper].result = "returned") =>
          \/ th[IOThread].pc \in {"ended", "crashed"}
          \/ th[Stopper].e]_vars

\* C20: stop(timeout) waits, for timeout at most, for the client to be
\* running; when it is, stop clears the running flag and returns without
\* waiting for the I/O loop, which is left where it was; when it is not,
\* the timeout has elapsed and stop raises RuntimeError.
C20_StopSignals ==
    [][StopCheck =>
          IF running
          THEN /\ ~running'
               /\ th'[Stopper].result = "returned"
               /\ th'[IOThread] = th[IOThread]
               /\ io_alive' = io_alive
          ELSE /\ th'[Stopper].result = "RuntimeError"
               /\ th[Stopper].e
               /\ UNCHANGED running]_vars

\* C20 witness: stop() has returned, its wait having come back at once,
\* while the I/O thread is connected and in select.
C20_Witness ==
    /\ th[Stopper].pc = "done" /\ th[Stopper].result = "returned"
    /\ ~th[Stopper].e
    /\ ~running /\ sock /\ io_alive
    /\ th[IOThread].pc = "select"

\* ------------------------------------------------- claims: the parser
\* The line given to the parser, its type and name part (up to the first
\* space) and its argument section (after the first space).
ParsedLine == codec.line
HeadOf(line) == SubSeq(line, 1, FirstSpace(line) - 1)
SectionOf(line) == SubSeq(line, FirstSpace(line) + 1, Len(line))
HasSection(line) == FirstSpace(line) <= Len(line)

\* The name grammar [A-Za-z][A-Za-z0-9-]* over the bytes in use.
NameLetters == {"a", "b", "c", "d", "e", "f", "m", "n", "o", "r", "t", "z"}
NameDigits == {"0", "1", "2", "3"}
MatchesGrammar(name) ==
    /\ name # <<>>
    /\ name[1] \in NameLetters
    /\ \A k \in DOMAIN name : name[k] \in NameLetters \cup NameDigits \cup {DASH}

\* A line whose type and name part is well-formed.
WellHeaded(line) ==
    /\ HeadOf(line) # <<>>
    /\ HeadOf(line)[1] \in {REQUEST, REPLY, INFORM}
    /\ MatchesGrammar(Tail(HeadOf(line)))

\* The number of backslashes that directly precede position i of text.
BackslashesBefore(text, i) ==
    LET S == {k \in 0..(i - 1) : \A j \in (i - k)..(i - 1) : text[j] = BS}
    IN  CHOOSE k \in S : \A m \in S : m <= k

\* The byte at position i of an argument section is not the second byte
\* of an escape.
Unescaped(text, i) == BackslashesBefore(text, i) % 2 = 0

\* The escape codes and the byte each stands for.
ClaimedCodes == {BS, SP, "0", "n", "r", "e", "t"}
Decoded(code) ==
    CASE code = BS -> BS
      [] code = SP -> SP
      [] code = "0" -> NUL
      [] code = "n" -> LF
      [] code = "r" -> CR
      [] code = "e" -> ESC
      [] code = "t" -> TAB

C25_SyntaxErrors ==
    codec.pc = "parsed" =>
        LET line == ParsedLine
            section == SectionOf(line)
        IN  (\/ line = <<>>
             \/ line # <<>> /\ line[1] \notin {REQUEST, REPLY, INFORM}
             \/ Len(HeadOf(line)) = 1
             \/ \E i \in DOMAIN section :
                    /\ section[i] \in {TAB, ESC, LF, CR, NUL}
                    /\ Unescaped(section, i)) =>
                (codec.exc = "DclSyntaxError" /\ codec.out = ParseError)

\* C25 witness: `!foo tab<TAB>arg` was refused with DclSyntaxError.
C25_Witness ==
    /\ codec.pc = "parsed"
    /\ codec.line = <<REPLY, "f", "o", "o", SP, "t", "a", "b", TAB, "a", "r", "g">>
    /\ codec.exc = "DclSyntaxError"
    /\ codec.out = ParseError

\* C26: a backslash in the argument section that begins an escape and is
\* not followed by one of the seven escape codes, or is the last byte of
\* the line, makes parse raise DclSyntaxError.
C26_BadEscape ==
    codec.pc = "parsed" =>
        LET section == SectionOf(ParsedLine)
        IN  (\E i \in DOMAIN section :
                 /\ section[i] = BS
                 /\ Unescaped(section, i)
                 /\ (i = Len(section) \/ section[i + 1] \notin ClaimedCodes)) =>
                codec.exc = "DclSyntaxError"

\* C27: each two-byte escape decodes to its byte, escapes that follow one
\* another stay in one argument, and the line of the seven escapes parses
\* to one argument of the seven bytes in order.
C27_Escapes ==
    codec.pc = "parsed" =>
        /\ \A c \in ClaimedCodes :
               ParsedLine = <<REQUEST, "a", SP, BS, c>> =>
                   codec.out = Msg("REQUEST", <<"a">>, <<<<Decoded(c)>>>>)
        /\ \A c, d \in ClaimedCodes :
               ParsedLine = <<REQUEST, "a", SP, BS, c, BS, d>> =>
                   codec.out = Msg("REQUEST", <<"a">>,
                                   <<<<Decoded(c), Decoded(d)>>>>)
        /\ ParsedLine = <<REQUEST, "f", "o", "o", SP, BS, BS, BS, SP, BS, "0",
                          BS, "n", BS, "r", BS, "e", BS, "t">> =>
               codec.out = Msg("REQUEST", <<"f", "o", "o">>,
                               <<<<BS, SP, NUL, LF, CR, ESC, TAB>>>>)

\* C27 witness: the line of the seven escapes was parsed to one argument.
C27_Witness ==
    /\ codec.pc = "parsed"
    /\ codec.line = <<REQUEST, "f", "o", "o", SP, BS, BS, BS, SP, BS, "0",
                      BS, "n", BS, "r", BS, "e", BS, "t">>
    /\ Len(codec.out.arguments) = 1
    /\ codec.out.arguments[1] = <<BS, SP, NUL, LF, CR, ESC, TAB>>

\* C28: parse accepts a line of a type symbol and a name, without
\* arguments, if and only if the name matches [A-Za-z][A-Za-z0-9-]*, and
\* then gives the name as it is; `?1bad`, `?-bad` and `?bad.name` are
\* refused with DclSyntaxError, `?a`, `?a-b-c` and `?abc123` accepted.
C28_NameGrammar ==
    codec.pc = "parsed" =>
        LET line == ParsedLine
        IN  /\ (line # <<>> /\ line[1] \in {REQUEST, REPLY, INFORM}
                    /\ ~HasSection(line)) =>
                   IF MatchesGrammar(Tail(line))
                   THEN codec.exc = None /\ codec.out.name = Tail(line)
                   ELSE codec.exc = "DclSyntaxError" /\ codec.out = ParseError
            /\ line \in {<<REQUEST, "1", "b", "a", "d">>,
                         <<REQUEST, DASH, "b", "a", "d">>,
                         <<REQUEST, "b", "a", "d", ".", "n", "a", "m", "e">>} =>
                   codec.exc = "DclSyntaxError"
            /\ line \in {<<REQUEST, "a">>,
                         <<REQUEST, "a", DASH, "b", DASH, "c">>,
                         <<REQUEST, "a", "b", "c", "1", "2", "3">>} =>
                   codec.out = Msg("REQUEST", Tail(line), <<>>)

\* C28 witness: `?a-b-c` was accepted.
C28_Witness ==
    /\ codec.pc = "parsed"
    /\ codec.line = <<REQUEST, "a", DASH, "b", DASH, "c">>
    /\ codec.out = Msg("REQUEST", <<"a", DASH, "b", DASH, "c">>, <<>>)


\* ------------------------------------- claims: correlators, continued
\* The first argument of a reply is `fail`.
FailArgs == {"fail-timeout", "fail-stopped", "fail-senderr"}

\* C23: when CallbackClient.request could not send because of a
\* client-side send error, the delivery it makes before it returns leaves
\* the request's reply_cb called exactly once, with a Reply named as the
\* request whose first argument is `fail`, and the request is not in the
\* pending table.
C23_SendErrorReply ==
    [][\A i \in DOMAIN reqs :
          ((RequestDeliver(i) \/ RequestDeliverPop(i)) /\ reqs'[i].pc = "done") =>
              /\ Len(reqs'[i].cbs) = 1
              /\ reqs'[i].cbs[1].mtype = REPLY
              /\ reqs'[i].cbs[1].name = reqs[i].name
              /\ reqs'[i].cbs[1].arg \in FailArgs
              /\ i \notin {async_queue'[k] : k \in DOMAIN async_queue'}]_vars

\* The requests named name in the pending table whose stored MID is None.
PendingNoMid(name) ==
    {r \in InQueue : reqs[r].name = name /\ reqs[r].mid = None}

\* C29: a reply without a MID goes to the oldest request of its name in
\* the pending table whose stored MID is None, whatever requests with a
\* MID are pending under that name; when there is none it goes to
\* DeviceClient.handle_reply, no entry is removed and no timer cancelled.
C29_NoMidReply ==
    [][\A name \in Names :
          /\ (HandleReply(name, None) /\ PendingNoMid(name) = {}) =>
                 /\ last' = NoRequest /\ io_reply' = NoMessage
                 /\ UNCHANGED <<async_queue, async_id_stack, timers, reqs>>
          /\ (HandleReply(name, None) /\ PendingNoMid(name) # {}) =>
                 io_reply' = ServerReply(name, None)
          /\ (HandleReplyPop /\ io_reply.name = name
                  /\ PendingNoMid(name) # {}) =>
                 LET r == Oldest(PendingNoMid(name))
                 IN  /\ reqs'[r].cbs = Append(reqs[r].cbs, io_reply)
                     /\ r \notin {async_queue'[k] : k \in DOMAIN async_queue'}
                     /\ last' = r]_vars

\* C30: once a matching reply is recorded for the current blocking
\* request, a later inform or reply, with or without a MID, goes to the
\* base class handler and changes neither the recorded reply nor the list
\* of informs.
C30_StragglersUnmatched ==
    [][\A name \in Names, mid \in BlockingMids \cup {None} :
          ((BCHandleInform(name, mid) \/ BCHandleReply(name, mid))
               /\ request_end /\ current_reply # NoMessage) =>
              /\ bc_route' = "base"
              /\ UNCHANGED <<current_reply, current_informs>>]_vars


\* ----------------------------------------------- claims: the life cycle
\* C21: join(), called after stop(), returns, and once stop() was called
\* the I/O loop exits with the socket closed.
C21_JoinReturns ==
    /\ (jn.pc # "idle") ~> (jn.pc = "returned")
    /\ (~running) ~> (~io_alive /\ ~sock)


\* The I/O thread has left run().
RunOver == th[IOThread].pc \in {"ended", "crashed"}

\* C22: without auto_reconnect the I/O loop connects once only and, the
\* connection lost, terminates; with auto_reconnect and the client
\* running, a client without a socket goes on to a connect attempt, unless
\* it is connected again or stopped before.
C22_Reconnect ==
    /\ [](~auto_reconnect => Len(socks) <= 1)
    /\ (~auto_reconnect /\ Len(socks) = 1 /\ ~sock) ~> RunOver
    /\ (auto_reconnect /\ running /\ ~sock)
           ~> (th[IOThread].pc = "connect" \/ sock \/ ~running)

\* C22 but for an I/O thread that an exception of notify_connected has
\* ended: the statement holds.
C22_ReconnectUnlessCrashed ==
    /\ [](~auto_reconnect => Len(socks) <= 1)
    /\ (~auto_reconnect /\ Len(socks) = 1 /\ ~sock) ~> RunOver
    /\ (auto_reconnect /\ running /\ ~sock)
           ~> (th[IOThread].pc \in {"connect", "crashed"} \/ sock \/ ~running)


\* --------------------------------------- claims: the pending table
\* The keys held by the name stack of name.
StackIds(stack, name) == {stack[name][k] : k \in DOMAIN stack[name]}

\* C31: a request registered in the pending table leaves it only in a step
\* that calls its reply_cb (the reply, the timer or stop()); once a reply
\* was delivered to a request or its timer has fired, it has no entry in
\* the pending table and its MID is in no name stack; after stop() the
\* pending table and the name stacks are empty.
C31_PendingLifecycle ==
    [][/\ \A r \in InQueue :
              r \notin {async_queue'[k] : k \in DOMAIN async_queue'} =>
                  Len(reqs'[r].cbs) > Len(reqs[r].cbs)
       /\ \A r \in DOMAIN reqs :
              (Len(reqs'[r].cbs) > Len(reqs[r].cbs) \/ HandleTimeout(r)) =>
                  /\ r \notin {async_queue'[k] : k \in DOMAIN async_queue'}
                  /\ reqs[r].mid # None =>
                         reqs[r].mid \notin StackIds(async_id_stack', reqs[r].name)
       /\ Stop => /\ DOMAIN async_queue' = {}
                  /\ \A n \in Names : async_id_stack'[n] = <<>>]_vars

\* The requests registered by request() whose reply_cb has not been called.
Unanswered ==
    {r \in DOMAIN reqs : reqs[r].pc \in {"deliver", "deliver_pop", "done"}
                         /\ reqs[r].cbs = <<>>}

\* C38: the pending table and the name stacks agree: the stack of a name
\* holds, once each, the keys of the pending requests of that name and
\* nothing else, and every registered request that is still unanswered is
\* in the pending table.
C38_TableStackAgree ==
    /\ \A n \in Names :
          /\ StackIds(async_id_stack, n) =
                 {k \in DOMAIN async_queue : reqs[async_queue[k]].name = n}
          /\ \A j, k \in DOMAIN async_id_stack[n] :
                 async_id_stack[n][j] = async_id_stack[n][k] => j = k
    /\ Unanswered \subseteq InQueue

\* C35: with MIDs, a reply with MID m that the I/O thread dispatches once
\* the request with MID m was written to the socket, be it before or
\* after request() has registered it, is delivered to the reply_cb of that
\* request.
C35_ReplyAfterSend ==
    [][\A name \in Names, mid \in ServerMids, r \in DOMAIN reqs :
          (/\ HandleReply(name, mid)
           /\ reqs[r].name = name /\ reqs[r].mid = mid
           /\ reqs[r].pc \in {"push", "done"} /\ reqs[r].cbs = <<>>
           /\ running) =>
              reqs'[r].cbs = <<ServerReply(name, mid)>>]_vars


\* ------------------------------------ claims: BlockingClient, continued
\* C37: with MIDs, the reply a blocking_request call returns, when it is
\* the server's reply to a request this client has sent under the same
\* name, carries the MID of the call's own request.
C37_OwnReplyOnly ==
    \A t \in DOMAIN bc :
        (/\ bc[t].pc = "end" /\ bc[t].result = "returned"
         /\ bc[t].mid # None
         /\ \E k \in DOMAIN wire : /\ wire[k].name = bc[t].name
                                   /\ wire[k].mid = bc[t].reply.mid) =>
            bc[t].reply.mid = bc[t].mid


\* ------------------------------------ claims: the socket level, continued
\* Thread t is inside _connect or _disconnect.
Connecting(t) ==
    th[t].pc \in {"connect", "notify", "disconnect", "disconnect_clear",
                  "disconnect_close"}

\* C39: whenever no thread is inside _connect or _disconnect, the
\* connected latch is set exactly when the client has a socket.
C39_LatchAgrees ==
    (\A t \in Threads : ~Connecting(t)) => (connected = sock)


\* ------------------------------------------------ claims: the informs
\* The messages request r's inform_cb has been called with.
ReceivedInforms(r) == {reqs[r].icbs[k] : k \in DOMAIN reqs[r].icbs}

\* C36: a reply or an inform without a MID that reaches the reply_cb or the
\* inform_cb of a request sent without a MID bears that request's name.
C36_NameRespected ==
    \A r \in DOMAIN reqs :
        reqs[r].mid = None =>
            \A m \in Received(r) \cup ReceivedInforms(r) :
                m.mid = None => m.name = reqs[r].name

\* The positions in the stack of name whose key is that of a pending
\* request of that name.
LivePositions(name) ==
    {k \in DOMAIN async_id_stack[name] :
        /\ async_id_stack[name][k] \in DOMAIN async_queue
        /\ reqs[async_queue[async_id_stack[name][k]]].name = name}

\* The oldest pending request of name, or NoRequest.
OldestPending(name) ==
    IF LivePositions(name) = {} THEN NoRequest
    ELSE async_queue[async_id_stack[name][Oldest(LivePositions(name))]]

\* The request an inform is for: the pending request with its MID, or,
\* for an inform without MID, the oldest pending request of its name when
\* that one was sent without a MID.
Selected(name, mid) ==
    IF mid # None
    THEN IF mid \in DOMAIN async_queue THEN async_queue[mid] ELSE NoRequest
    ELSE IF OldestPending(name) = NoRequest THEN NoRequest
         ELSE IF reqs[OldestPending(name)].mid # None THEN NoRequest
              ELSE OldestPending(name)

\* C32: an inform goes to the inform_cb of the request selected for it,
\* or to the base dispatcher when there is none; dispatching it leaves the
\* pending table, the name stacks and the timers as they were.
C32_InformRouting ==
    [][\A name \in Names, mid \in InformMids :
          HandleInform(name, mid, None) =>
              /\ last' = Selected(name, mid)
              /\ \A r \in DOMAIN reqs :
                     /\ reqs'[r].icbs =
                            IF r = Selected(name, mid)
                            THEN Append(reqs[r].icbs, ServerInform(name, mid))
                            ELSE reqs[r].icbs
                     /\ reqs'[r].cbs = reqs[r].cbs
              /\ UNCHANGED <<async_queue, async_id_stack, timers>>]_vars

\* C32, the frame alone: dispatching an inform never removes a pending
\* entry and never cancels a timer.
C32_InformFrame ==
    [][(\E name \in Names, mid \in InformMids :
            HandleInform(name, mid, None)) =>
          UNCHANGED <<async_queue, async_id_stack, timers>>]_vars


\* --------------------------------------- claims: requests of the server
\* C34: for a request of the server, a message is written only when the
\* handler returned a Reply named as the request, and it is that reply
\* with the MID of the request; when the handler raises, returns nothing
\* or returns a message of another type or name, nothing is written; and
\* the I/O loop goes on.
C34_ReplyToRequest ==
    [][\A name \in Names, mid \in InformMids, exc \in CallbackOutcomes,
          reply \in HandlerReturns :
          HandleRequest(name, mid, exc, reply) =>
              /\ wire' # wire =>
                     /\ exc = None /\ reply # NoMessage
                     /\ reply.mtype = REPLY /\ reply.name = name
                     /\ wire' = Append(wire, Message(REPLY, name, mid, reply.arg))
              /\ (\/ exc # None \/ reply = NoMessage
                  \/ reply.mtype # REPLY \/ reply.name # name) => wire' = wire
              /\ io_alive' = io_alive /\ sock' = sock /\ running' = running]_vars

\* C34 witness: the reply to ?x[1] was written with MID 1, and a handler
\* that returned a message of another type or name wrote nothing.
C34_Witness ==
    /\ wire = <<Message(REPLY, "x", "1", "ok")>>
    /\ \E k \in DOMAIN logged : /\ logged[k].handler = "request"
                                /\ logged[k].exc = "AssertionError"
    /\ io_alive /\ sock


\* ------------------------------------------- claims: raising callbacks
\* C33: when a reply_cb, an inform_cb or a handler of a reply, an inform
\* or a request raises, the I/O thread stays in its loop, the socket and
\* the running flag are as before, and the pending table, the name stacks,
\* the timers and the record of callbacks made are what the same dispatch
\* leaves when the callback returns.
C33_ExceptionsContained ==
    [][/\ \A mid \in InformMids :
             /\ HandleReplyCb("x", mid, "Exception") =>
                    /\ io_alive' /\ sock' /\ running' = running
                    /\ IF mid # None
                       THEN /\ async_queue' = PopQueue(mid, None)
                            /\ async_id_stack' = PopStack(mid, None)
                            /\ timers' = PoppedTimers(mid, None)
                            /\ reqs' = PoppedReqs(ServerReply("x", mid), mid, None)
                       ELSE /\ timers' = PeekedTimers(ServerReply("x", mid))
                            /\ UNCHANGED <<async_queue, async_id_stack, reqs>>
             /\ HandleInform("x", mid, "Exception") =>
                    /\ io_alive' /\ sock' /\ running' = running
                    /\ reqs' = CallInformCb(InformRoute(ServerInform("x", mid)),
                                            ServerInform("x", mid))
                    /\ UNCHANGED <<async_queue, async_id_stack, timers>>
             /\ HandleRequest("x", mid, "Exception", NoMessage) =>
                    /\ io_alive' /\ sock' = sock /\ running' = running
                    /\ UNCHANGED <<async_queue, async_id_stack, timers, reqs,
                                   wire>>
       /\ HandleReplyPopCb("Exception") =>
              /\ io_alive' /\ sock' = sock /\ running' = running
              /\ async_queue' = PopQueue(None, io_reply.name)
              /\ async_id_stack' = PopStack(None, io_reply.name)
              /\ timers' = PoppedTimers(None, io_reply.name)
              /\ reqs' = PoppedReqs(io_reply, None, io_reply.name)]_vars

\* C33 witness: the reply_cb of the first request raised on its reply, the
\* request is no longer pending, and the I/O thread went on to dispatch an
\* inform whose callback raised too; it is still in its loop, connected.
C33_Witness ==
    /\ Len(logged) = 2
    /\ logged[1].handler = "reply" /\ logged[1].exc = "Exception"
    /\ logged[2].handler = "inform" /\ logged[2].exc = "Exception"
    /\ Len(reqs) >= 1 /\ Len(reqs[1].cbs) = 1 /\ reqs[1].cbs[1].arg = "ok"
    /\ 1 \notin InQueue
    /\ io_alive /\ sock /\ running


\* ------------------------------------------------- claims: the MIDs
\* The number a decimal string stands for.
Num(str) == CHOOSE n \in 1..Len(StrTable) : StrTable[n] = str

\* The MID given to the k-th request of thread t.
MidOf(a) == nx[a[1]].mids[a[2]]

\* C40: the MIDs assigned are decimal strings of numbers >= 1, no two
\* requests were given the same one, and together they are 1, 2, 3, ...
\* without a gap, each thread getting its own in increasing order.
C40_MidsUnique ==
    /\ \A a \in Assigned : \E n \in 1..Len(StrTable) : MidOf(a) = StrTable[n]
    /\ \A a, b \in Assigned : MidOf(a) = MidOf(b) => a = b
    /\ {Num(MidOf(a)) : a \in Assigned} = 1..Cardinality(Assigned)
    /\ \A a, b \in Assigned :
           (a[1] = b[1] /\ a[2] < b[2]) => Num(MidOf(a)) < Num(MidOf(b))

\* C40 witness: two threads have called request() in turn.
C40_Witness ==
    /\ nx["s1"].mids = <<"1", "3">>
    /\ nx["s2"].mids = <<"2", "4">>


====
